---- MODULE Spec2Model ----
(***************************************************************************)
(* Regional wall-motion store of the echo-Doppler calculator:              *)
(* MotilityController (src/js/hemodynamics.js) over the static             *)
(* MotilityModel (src/unnamed/part_003) and the browser's localStorage.    *)
(***************************************************************************)
EXTENDS Integers, Sequences, FiniteSets, TLC

\* ------------------------------------------------------------------ bounds
\* number of calls made on the store in one behaviour
MaxCalls == 4
\* number of user actions on the report form in one behaviour
MaxUISteps == 3
\* number of restart timers that can be pending at once
MaxTimers == 3

\* ------------------------------------------------------- JavaScript values
\* Severities are the numbers 1..4.  The three values below stand for the
\* JavaScript values that are not numbers of the model: NaN (the result of
\* undefined % 4 + 1), null (what JSON.stringify writes for NaN and
\* JSON.parse reads back) and undefined (a missing property).
NaN == 0 - 1
JsNull == 0 - 2
Undefined == 0 - 3

SegmentIds == 1..17

\* ------------------------------------------------ MotilityModel (part_003)
DASegments == {1, 2, 7, 8, 13, 14, 17}
CDSegments == {3, 4, 9, 10, 15}
CxSegments == {5, 6, 11, 12, 16}

\* the name of a segment, as its words
SegmentName(id) ==
  CASE id \in 1..12 ->
         << IF id <= 6 THEN "Basal" ELSE "Medio",
            CASE id \in {1, 7} -> "Anterior"
              [] id \in {2, 8} -> "Anteroseptal"
              [] id \in {3, 9} -> "Inferoseptal"
              [] id \in {4, 10} -> "Inferior"
              [] id \in {5, 11} -> "Inferolateral"
              [] id \in {6, 12} -> "Anterolateral" >>
    [] id = 13 -> <<"Apical", "Anterior">>
    [] id = 14 -> <<"Apical", "Septal">>
    [] id = 15 -> <<"Apical", "Inferior">>
    [] id = 16 -> <<"Apical", "Lateral">>
    [] id = 17 -> <<"Apex">>

SEGMENTS ==
  [id \in SegmentIds |->
     [name |-> SegmentName(id),
      artery |-> IF id \in DASegments THEN "DA"
                 ELSE IF id \in CDSegments THEN "CD" ELSE "Cx"]]

Pat(segs, sev, cat, diffuse) ==
  [affectedSegments |-> segs, severity |-> sev, category |-> cat,
   isDiffuse |-> diffuse]

PATTERNS ==
  [ischemic_da |-> Pat(<<1, 2, 7, 8, 13, 14, 17>>, 2, "ischemic", FALSE),
   ischemic_cd |-> Pat(<<3, 4, 9, 10, 15>>, 2, "ischemic", FALSE),
   ischemic_cx |-> Pat(<<5, 6, 11, 12, 16>>, 2, "ischemic", FALSE),
   ischemic_multivessel |->
     Pat(<<1, 2, 4, 7, 8, 10, 13, 14, 15, 17>>, 2, "ischemic", FALSE),
   takotsubo_apical |-> Pat(<<13, 14, 15, 16, 17>>, 2, "takotsubo", FALSE),
   takotsubo_mid |-> Pat(<<7, 8, 9, 10, 11, 12>>, 2, "takotsubo", FALSE),
   takotsubo_inverted |-> Pat(<<1, 2, 3, 4, 5, 6>>, 2, "takotsubo", FALSE),
   takotsubo_focal |-> Pat(<<6, 12>>, 2, "takotsubo", FALSE),
   dilated_cm |->
     Pat(<<1, 2, 3, 4, 5, 6, 7, 8, 9, 10, 11, 12, 13, 14, 15, 16>>, 2,
         "cardiomyopathy", TRUE),
   hypertensive_cm |->
     Pat(<<1, 2, 3, 4, 5, 6, 7, 8, 9, 10, 11, 12>>, 2, "cardiomyopathy", TRUE),
   chagas |-> Pat(<<4, 10, 17>>, 2, "cardiomyopathy", FALSE),
   da_cx |-> Pat(<<1, 6, 7, 12, 13, 16, 17>>, 2, "combined", FALSE),
   da_cd_wrap |-> Pat(<<1, 2, 7, 8, 13, 14, 15, 17>>, 2, "combined", FALSE),
   cx_cd |-> Pat(<<4, 5, 10, 11, 15>>, 2, "combined", FALSE),
   multivessel |->
     Pat(<<1, 2, 3, 4, 5, 6, 7, 8, 9, 10, 11, 12, 13, 14, 15, 16>>, 2,
         "combined", FALSE),
   left_main |->
     Pat(<<1, 2, 5, 6, 7, 8, 11, 12, 13, 14>>, 2, "combined", FALSE),
   da_distal |-> Pat(<<13, 14, 15, 16, 17>>, 2, "combined", FALSE),
   bcri |-> Pat(<<2, 3, 8, 9, 14>>, 2, "dyssynchrony", FALSE),
   bcrd |-> Pat(<<2, 8>>, 1, "dyssynchrony", FALSE),
   pacemaker |-> Pat(<<2, 3, 8, 9, 14>>, 2, "dyssynchrony", FALSE),
   post_surgery |-> Pat(<<2, 3, 8, 9, 14>>, 2, "dyssynchrony", FALSE),
   aneurysm_anterior |-> Pat(<<1, 7, 13>>, 4, "special", FALSE),
   aneurysm_apical |-> Pat(<<13, 14, 15, 16, 17>>, 4, "special", FALSE),
   aneurysm_inferior |-> Pat(<<4, 10, 15>>, 4, "special", FALSE)]

PatternNames == DOMAIN PATTERNS

Range(s) == {s[i] : i \in DOMAIN s}

\* -------------------------------------------------------------- variables
VARIABLES
  state,         \* this.state: segment id -> severity
  pattern,       \* this.pattern: active pattern name
  localStorage,  \* the key-value store: key -> stored string
  alive,         \* a MotilityController exists (its constructor returned)
  lastCall,      \* the call made last and whether it threw
  notified,      \* arguments notifyListeners was called with by the last call
  toggleRun,     \* the run of consecutive toggleSegment calls on one segment
  calls,         \* number of calls made so far
  listeners,     \* this.listeners: the callbacks, in registration order
  invoked,       \* the callbacks the last call invoked, in order
  failingKeys,   \* keys for which localStorage.setItem raises (store full)
  form,          \* the values of the inputs of the page, by element id
  uiState,       \* UIController.state
  lanusResult,   \* the classification shown in the Lanus box ("" when none)
  resultado,     \* the report in the 'resultado' text area
  uiSteps,       \* number of user actions made on the form so far
  uiLast,        \* the user action made last
  voice,         \* VoiceRecognition: isActive, manualStop
  recognizer,    \* the browser's recognizer: idle, listening or stopping
  timers,        \* number of restart timers set and not yet fired
  voiceLog       \* the last voice command and step, and whether the step
                 \* invoked recognition.start()

storeVars == <<state, pattern, localStorage, alive, lastCall, notified,
               toggleRun, calls, listeners, invoked, failingKeys>>
uiVars == <<form, uiState, lanusResult, resultado, uiSteps, uiLast>>
voiceVars == <<voice, recognizer, timers, voiceLog>>

vars == <<state, pattern, localStorage, alive, lastCall, notified, toggleRun,
          calls, listeners, invoked, failingKeys, form, uiState, lanusResult,
          resultado, uiSteps, uiLast, voice, recognizer, timers, voiceLog>>

StateKey == "motility-state"
PatternKey == "motility-pattern"

\* ------------------------------------------------------------ JSON / store
\* A stored 'motility-state' string is either JSON text of an object, given
\* by the object it denotes, or a string that is not JSON.
JsonText(obj) == [kind |-> "json", obj |-> obj]
CorruptText == [kind |-> "corrupt", obj |-> << >>]

\* JSON.stringify(this.state): a number is written as its numeral, NaN as null
Stringify(st) ==
  JsonText([k \in DOMAIN st |-> IF st[k] = NaN THEN JsNull ELSE st[k]])

\* JSON.parse(saved): the object of a JSON text; a SyntaxError otherwise
ParseThrows(text) == text.kind # "json"
Parse(text) == text.obj

HasItem(ls, key) == key \in DOMAIN ls

SetItem(ls, key, value) ==
  [k \in DOMAIN ls \cup {key} |-> IF k = key THEN value ELSE ls[k]]

\* a store that is never written
saveToStorage_NotWritten(ls, st) == ls

\* localStorage.setItem('motility-state', JSON.stringify(this.state))
saveToStorage(ls, st) == SetItem(ls, StateKey, Stringify(st))

\* this.state[id], undefined when the property is missing
Get(st, id) == IF id \in DOMAIN st THEN st[id] ELSE Undefined

\* an assignment that reaches every segment
Put_Everywhere(st, id, v) == [k \in DOMAIN st \cup {id} |-> v]

\* this.state[id] = v
Put(st, id, v) == [k \in DOMAIN st \cup {id} |-> IF k = id THEN v ELSE st[k]]

getDefaultState == [i \in SegmentIds |-> 1]

\* loadFromStorage() || getDefaultState(), where it does not throw
loadFromStorage(ls) ==
  IF HasItem(ls, StateKey) THEN Parse(ls[StateKey]) ELSE getDefaultState

\* a constructor that does not read the stored pattern
loadPattern_Ignored(ls) == "none"

\* localStorage.getItem('motility-pattern') || 'none'
loadPattern(ls) ==
  IF HasItem(ls, PatternKey) /\ ls[PatternKey] # "" THEN ls[PatternKey]
  ELSE "none"

constructorThrows(ls) == HasItem(ls, StateKey) /\ ParseThrows(ls[StateKey])

Call(op, seg, level, pat, threw) ==
  [op |-> op, seg |-> seg, level |-> level, pat |-> pat, threw |-> threw]

NoRun == [id |-> 0, n |-> 0, orig |-> 0]
NoneNotified == << >>
SegmentNotified(id) == << [kind |-> "segment", id |-> id] >>
AllNotified == << [kind |-> "all", id |-> 0] >>

\* localStorage.setItem(key, ...) raises
SetItemThrows(key) == key \in failingKeys

\* a callback is given by what it does when invoked: "ok" or "throws"
ListenerKinds == {"ok", "throws"}

\* index of the first callback that throws, 0 when none does
FirstThrowing(ls) ==
  IF \E i \in DOMAIN ls : ls[i] = "throws"
  THEN CHOOSE i \in DOMAIN ls :
         /\ ls[i] = "throws"
         /\ \A j \in 1..(i - 1) : ls[j] # "throws"
  ELSE 0

\* this.listeners.forEach(callback => callback(segmentId, this.state)):
\* the invocations made, up to and including the first one that throws
notifyListeners(ls, arg) ==
  [i \in 1..(IF FirstThrowing(ls) = 0 THEN Len(ls) ELSE FirstThrowing(ls)) |->
     [listener |-> i, arg |-> arg]]

notifyThrows(ls) == FirstThrowing(ls) # 0

\* ------------------------------------------------------------- operations
\* new MotilityController() over the given key-value store
Constructed(ls) ==
  /\ localStorage = ls
  /\ alive = ~constructorThrows(ls)
  /\ state = IF constructorThrows(ls) THEN << >> ELSE loadFromStorage(ls)
  /\ pattern = IF constructorThrows(ls) THEN "" ELSE loadPattern(ls)
  /\ lastCall = Call("constructor", 0, 0, "", constructorThrows(ls))
  /\ notified = NoneNotified
  /\ toggleRun = NoRun
  /\ calls = 0
  /\ listeners = << >>
  /\ invoked = << >>

\* the page is loaded again: a second store over the same key-value store
Construct ==
  /\ UNCHANGED <<uiVars, voiceVars>>
  /\ calls < MaxCalls
  /\ calls' = calls + 1
  /\ alive' = ~constructorThrows(localStorage)
  /\ state' = IF constructorThrows(localStorage) THEN << >>
              ELSE loadFromStorage(localStorage)
  /\ pattern' = IF constructorThrows(localStorage) THEN ""
                ELSE loadPattern(localStorage)
  /\ lastCall' = Call("constructor", 0, 0, "", constructorThrows(localStorage))
  /\ notified' = NoneNotified
  /\ toggleRun' = NoRun
  /\ listeners' = << >>
  /\ invoked' = << >>
  /\ UNCHANGED <<localStorage, failingKeys>>

\* addListener(callback)
addListener(kind) ==
  /\ UNCHANGED <<uiVars, voiceVars>>
  /\ alive
  /\ calls < MaxCalls
  /\ calls' = calls + 1
  /\ listeners' = Append(listeners, kind)
  /\ lastCall' = Call("addListener", 0, 0, "", FALSE)
  /\ notified' = NoneNotified
  /\ invoked' = << >>
  /\ toggleRun' = NoRun
  /\ UNCHANGED <<state, pattern, localStorage, alive, failingKeys>>

\* a toggle that does not wrap
ToggleValue_NoWrap(current) == current + 1

\* (current % 4) + 1 ; undefined and NaN give NaN, null counts as 0
ToggleValue(current) ==
  IF current = Undefined \/ current = NaN THEN NaN
  ELSE IF current = JsNull THEN 1
  ELSE (current % 4) + 1

\* the segment write, the save and the notification that follow the
\* assignment of this.state in toggleSegment and setSegmentState
SaveAndNotify(op, segmentId, level) ==
  IF SetItemThrows(StateKey)
  THEN /\ lastCall' = Call(op, segmentId, level, "", TRUE)
       /\ notified' = NoneNotified
       /\ invoked' = << >>
       /\ UNCHANGED localStorage
  ELSE /\ localStorage' = saveToStorage(localStorage, state')
       /\ notified' = SegmentNotified(segmentId)
       /\ invoked' = notifyListeners(listeners, SegmentNotified(segmentId)[1])
       /\ lastCall' = Call(op, segmentId, level, "", notifyThrows(listeners))

toggleSegment(segmentId) ==
  /\ UNCHANGED <<uiVars, voiceVars>>
  /\ alive
  /\ calls < MaxCalls
  /\ calls' = calls + 1
  /\ state' = Put(state, segmentId, ToggleValue(Get(state, segmentId)))
  /\ SaveAndNotify("toggleSegment", segmentId, 0)
  /\ toggleRun' = IF lastCall.op = "toggleSegment" /\ toggleRun.id = segmentId
                  THEN [toggleRun EXCEPT !.n = @ + 1]
                  ELSE [id |-> segmentId, n |-> 1,
                        orig |-> Get(state, segmentId)]
  /\ UNCHANGED <<pattern, alive, listeners, failingKeys>>

\* a level test that lets 0 and 5 through
ValidLevel_OffByOne(level) == level >= 0 /\ level <= 5

\* state >= 1 && state <= 4
ValidLevel(level) == level >= 1 /\ level <= 4

setSegmentState(segmentId, level) ==
  /\ UNCHANGED <<uiVars, voiceVars>>
  /\ alive
  /\ calls < MaxCalls
  /\ calls' = calls + 1
  /\ toggleRun' = NoRun
  /\ IF ValidLevel(level)
     THEN /\ state' = Put(state, segmentId, level)
          /\ SaveAndNotify("setSegmentState", segmentId, level)
     ELSE /\ lastCall' = Call("setSegmentState", segmentId, level, "", FALSE)
          /\ notified' = NoneNotified
          /\ invoked' = << >>
          /\ UNCHANGED <<state, localStorage>>
  /\ UNCHANGED <<pattern, alive, listeners, failingKeys>>

\* a setPattern that does not clear the segments first
ResetAll_Skipped(st) == st

\* for (i = 1; i <= 17; i++) this.state[i] = 1
ResetAll(st) == [k \in DOMAIN st \cup SegmentIds |->
                   IF k \in SegmentIds THEN 1 ELSE st[k]]

\* pattern.severity || 3
PatternSeverity(p) == IF p.severity = 0 THEN 3 ELSE p.severity

\* affectedSegments.forEach(id => this.state[id] = severity)
ApplyPattern(st, p) ==
  [k \in DOMAIN st \cup Range(p.affectedSegments) |->
     IF k \in Range(p.affectedSegments) THEN PatternSeverity(p) ELSE st[k]]

\* patternName !== 'none' && MotilityModel.PATTERNS[patternName]
\*   && pattern.affectedSegments.length > 0
AppliesPattern(patternName) ==
  /\ patternName # "none"
  /\ patternName \in PatternNames
  /\ Len(PATTERNS[patternName].affectedSegments) > 0

\* the segments after the reset loop and the pattern's assignments
PatternState(st, patternName) ==
  ApplyPattern(ResetAll(st), PATTERNS[patternName])

\* a setPattern whose reset loop runs before the name is looked at
setPattern_ResetsFirst(patternName) ==
  /\ UNCHANGED <<uiVars, voiceVars>>
  /\ alive
  /\ calls < MaxCalls
  /\ calls' = calls + 1
  /\ toggleRun' = NoRun
  /\ pattern' = patternName
  /\ state' = IF AppliesPattern(patternName)
              THEN PatternState(state, patternName)
              ELSE ResetAll(state)
  /\ localStorage' =
       saveToStorage(SetItem(localStorage, PatternKey, patternName), state')
  /\ notified' = AllNotified
  /\ invoked' = notifyListeners(listeners, AllNotified[1])
  /\ lastCall' = Call("setPattern", 0, 0, patternName, notifyThrows(listeners))
  /\ UNCHANGED <<alive, listeners, failingKeys>>

setPattern(patternName) ==
  /\ UNCHANGED <<uiVars, voiceVars>>
  /\ alive
  /\ calls < MaxCalls
  /\ calls' = calls + 1
  /\ toggleRun' = NoRun
  /\ pattern' = patternName
  /\ IF SetItemThrows(PatternKey)
     THEN /\ lastCall' = Call("setPattern", 0, 0, patternName, TRUE)
          /\ notified' = NoneNotified
          /\ invoked' = << >>
          /\ UNCHANGED <<state, localStorage>>
     ELSE IF AppliesPattern(patternName)
     THEN /\ state' = PatternState(state, patternName)
          /\ IF SetItemThrows(StateKey)
             THEN /\ localStorage' =
                       SetItem(localStorage, PatternKey, patternName)
                  /\ lastCall' = Call("setPattern", 0, 0, patternName, TRUE)
                  /\ notified' = NoneNotified
                  /\ invoked' = << >>
             ELSE /\ localStorage' =
                       saveToStorage(
                         SetItem(localStorage, PatternKey, patternName),
                         state')
                  /\ notified' = AllNotified
                  /\ invoked' = notifyListeners(listeners, AllNotified[1])
                  /\ lastCall' = Call("setPattern", 0, 0, patternName,
                                      notifyThrows(listeners))
     ELSE /\ localStorage' = SetItem(localStorage, PatternKey, patternName)
          /\ lastCall' = Call("setPattern", 0, 0, patternName, FALSE)
          /\ notified' = NoneNotified
          /\ invoked' = << >>
          /\ UNCHANGED state
  /\ UNCHANGED <<alive, listeners, failingKeys>>

\* the two writes and the notification of reset
ResetSaveAndNotify ==
  IF SetItemThrows(StateKey)
  THEN /\ lastCall' = Call("reset", 0, 0, "", TRUE)
       /\ notified' = NoneNotified
       /\ invoked' = << >>
       /\ UNCHANGED localStorage
  ELSE IF SetItemThrows(PatternKey)
  THEN /\ localStorage' = saveToStorage(localStorage, state')
       /\ lastCall' = Call("reset", 0, 0, "", TRUE)
       /\ notified' = NoneNotified
       /\ invoked' = << >>
  ELSE /\ localStorage' =
            SetItem(saveToStorage(localStorage, state'), PatternKey, "none")
       /\ notified' = AllNotified
       /\ invoked' = notifyListeners(listeners, AllNotified[1])
       /\ lastCall' = Call("reset", 0, 0, "", notifyThrows(listeners))

\* a reset that stores "none" and keeps this.pattern
reset_KeepsPattern ==
  /\ UNCHANGED <<uiVars, voiceVars>>
  /\ alive
  /\ calls < MaxCalls
  /\ calls' = calls + 1
  /\ toggleRun' = NoRun
  /\ state' = getDefaultState
  /\ ResetSaveAndNotify
  /\ UNCHANGED <<pattern, alive, listeners, failingKeys>>

reset ==
  /\ UNCHANGED <<uiVars, voiceVars>>
  /\ alive
  /\ calls < MaxCalls
  /\ calls' = calls + 1
  /\ toggleRun' = NoRun
  /\ state' = getDefaultState
  /\ pattern' = "none"
  /\ ResetSaveAndNotify
  /\ UNCHANGED <<alive, listeners, failingKeys>>

\* -------------------------------------------------------- derived metrics
\* Object.entries(this.state): integer keys in ascending order
KeyOrder == [i \in 1..20 |-> i - 1]
Keys(st) == SelectSeq(KeyOrder, LAMBDA k : k \in DOMAIN st)

\* dyskinetic segments pushed to the akinetic list
getAbnormalSegments_WrongList(st) ==
  [hypokinetic |-> SelectSeq(Keys(st), LAMBDA k : st[k] = 2),
   akinetic |-> SelectSeq(Keys(st), LAMBDA k : st[k] = 3 \/ st[k] = 4),
   dyskinetic |-> << >>]

getAbnormalSegments(st) ==
  [hypokinetic |-> SelectSeq(Keys(st), LAMBDA k : st[k] = 2),
   akinetic |-> SelectSeq(Keys(st), LAMBDA k : st[k] = 3),
   dyskinetic |-> SelectSeq(Keys(st), LAMBDA k : st[k] = 4)]

Arteries == <<"DA", "CD", "Cx">>

\* the comparison turned round
Reducer_Smaller(scores, a, b) == IF scores[a] < scores[b] THEN a ELSE b

\* scores[a] > scores[b] ? a : b
Reducer(scores, a, b) == IF scores[a] > scores[b] THEN a ELSE b

\* "null" stands for the null result, "TypeError" for the exception of
\* MotilityModel.SEGMENTS[id].artery on an id that is not a segment
getAffectedTerritory(st) ==
  LET abnormalIds == SelectSeq(Keys(st), LAMBDA k : st[k] > 1)
      scores == [a \in Range(Arteries) |->
                   Cardinality({i \in DOMAIN abnormalIds :
                                  SEGMENTS[abnormalIds[i]].artery = a})]
  IN IF Len(abnormalIds) = 0 THEN "null"
     ELSE IF \E i \in DOMAIN abnormalIds : abnormalIds[i] \notin DOMAIN SEGMENTS
          THEN "TypeError"
     ELSE Reducer(scores, Reducer(scores, Arteries[1], Arteries[2]),
                  Arteries[3])

\* ------------------------------------------------------------------ WMSI
RECURSIVE SumValues(_, _)
SumValues(st, keys) ==
  IF keys = << >> THEN 0 ELSE st[Head(keys)] + SumValues(st, Tail(keys))

\* a WMSI whose decimals are cut off instead of rounded
calculateWMSI_Truncated(st) == (100 * SumValues(st, Keys(st))) \div 17

\* (sum / 17).toFixed(2), as the number of hundredths: sum / 17 is never
\* half way between two hundredths, so rounding is to the nearest one
calculateWMSI(st) == (200 * SumValues(st, Keys(st)) + 17) \div 34

\* ---------------------------------------------------------- report texts
LevelPrefixes == {"Basal", "Medio", "Apical"}

\* name.replace(/^(Basal|Medio|Apical)\s+/, '').replace('Apex', 'Apical')
getWallName(segmentId) ==
  LET name == SEGMENTS[segmentId].name
      rest == IF Len(name) > 1 /\ name[1] \in LevelPrefixes
              THEN Tail(name) ELSE name
  IN IF rest[1] = "Apex" THEN "Apical" ELSE rest[1]

getLevel(segmentId) ==
  LET name == SEGMENTS[segmentId].name
  IN IF name[1] = "Basal" THEN "basal"
     ELSE IF name[1] = "Medio" THEN "media"
     ELSE "apical"

\* wall.toLowerCase(); the composite names come out as themselves
formatWallName(wall) ==
  CASE wall = "Anterior" -> "anterior"
    [] wall = "Anteroseptal" -> "anteroseptal"
    [] wall = "Inferoseptal" -> "inferoseptal"
    [] wall = "Inferior" -> "inferior"
    [] wall = "Inferolateral" -> "inferolateral"
    [] wall = "Anterolateral" -> "anterolateral"
    [] wall = "Septal" -> "septal"
    [] wall = "Lateral" -> "lateral"
    [] wall = "Apical" -> "apical"

LevelOrder == <<"basal", "media", "apical">>

\* levels.sort((a, b) => order[a] - order[b])
SortLevels(levels) ==
  SelectSeq(levels, LAMBDA l : l = LevelOrder[1])
    \o SelectSeq(levels, LAMBDA l : l = LevelOrder[2])
    \o SelectSeq(levels, LAMBDA l : l = LevelOrder[3])

\* [...new Set(seq)]: first occurrences, in order
RECURSIVE Unique(_)
Unique(seq) ==
  IF seq = << >> THEN << >>
  ELSE LET init == Unique(SubSeq(seq, 1, Len(seq) - 1))
           last == seq[Len(seq)]
       IN IF last \in Range(init) THEN init ELSE Append(init, last)

\* the walls of a list of segments in the order they are first met, each
\* with the levels pushed for it (Object.entries(walls))
WallsOf(ids) ==
  LET walls == Unique([i \in DOMAIN ids |-> getWallName(ids[i])])
  IN [w \in DOMAIN walls |->
        [wall |-> walls[w],
         levels |-> LET mine == SelectSeq(ids, LAMBDA id :
                                            getWallName(id) = walls[w])
                    IN [j \in DOMAIN mine |-> getLevel(mine[j])]]]

\* one wall description: "pared <wall> (<levels>)" or "nivel apical"
WallDescription(entry) ==
  LET uniqueLevels == Unique(SortLevels(entry.levels))
      levelsText == IF Len(uniqueLevels) = 3 THEN LevelOrder ELSE uniqueLevels
      wallName == formatWallName(entry.wall)
  IN IF wallName = "apical" /\ levelsText = <<"apical">>
     THEN [form |-> "nivel", wall |-> "apical", levels |-> <<"apical">>]
     ELSE [form |-> "pared", wall |-> wallName, levels |-> levelsText]

\* "<severity> de <wall descriptions>"
Clause(severity, ids) ==
  LET walls == WallsOf(ids)
  IN [severity |-> severity,
      walls |-> [w \in DOMAIN walls |-> WallDescription(walls[w])]]

\* the tier clauses with hipoquinesia put first
FocalParts_HypoFirst(abnormal) ==
  LET all == << Clause("hipoquinesia", abnormal.hypokinetic),
                Clause("aquinesia", abnormal.akinetic),
                Clause("disquinesia", abnormal.dyskinetic) >>
  IN SelectSeq(all, LAMBDA c : Len(c.walls) > 0)

\* ['aquinesia', 'hipoquinesia', 'disquinesia'].forEach(...): the clauses
\* of the tiers that have walls
FocalParts(abnormal) ==
  LET all == << Clause("aquinesia", abnormal.akinetic),
                Clause("hipoquinesia", abnormal.hypokinetic),
                Clause("disquinesia", abnormal.dyskinetic) >>
  IN SelectSeq(all, LAMBDA c : Len(c.walls) > 0)

\* this.pattern !== 'none' ? MotilityModel.PATTERNS[this.pattern] : null
HasCurrentPattern(pat) == pat # "none" /\ pat \in PatternNames

\* a global description whatever the number of abnormal segments
IsGlobal_AnyCount(pat, totalAbnormal) ==
  HasCurrentPattern(pat) /\ PATTERNS[pat].isDiffuse

\* isDiffuse && totalAbnormal >= 12
IsGlobal(pat, totalAbnormal) ==
  HasCurrentPattern(pat) /\ PATTERNS[pat].isDiffuse /\ totalAbnormal >= 12

\* the severity words of the global sentence
DiffuseTiers(abnormal) ==
  (IF Len(abnormal.akinetic) > 0 THEN <<"aquinesia">> ELSE << >>)
    \o (IF Len(abnormal.hypokinetic) > 0 THEN <<"hipoquinesia">> ELSE << >>)
    \o (IF Len(abnormal.dyskinetic) > 0 THEN <<"disquinesia">> ELSE << >>)

\* currentPattern.name.includes("Dilatada") / includes("Hipertensiva")
DiffuseWording(pat) ==
  CASE pat = "dilated_cm" ->
         "global difusa que no respeta un territorio coronario especifico"
    [] pat = "hypertensive_cm" -> "con predominio basal y medio ventricular"
    [] OTHER -> "difusa"

\* the description of a dyssynchrony pattern (switch on this.pattern)
DyssynchronyDescription(pat) ==
  CASE pat = "bcri" -> "disincronia mecanica, septal flash, BCRI"
    [] pat = "bcrd" -> "motilidad conservada, asincronia leve del septum, BCRD"
    [] pat = "pacemaker" -> "contraccion disincronica, marcapasos"
    [] pat = "post_surgery" -> "movimiento septal anomalo, cirugia cardiaca"
    [] OTHER -> "description"

Report(kind, tiers, wording, parts, wmsi) ==
  [kind |-> kind, tiers |-> tiers, wording |-> wording, parts |-> parts,
   wmsi |-> wmsi]

\* the text, given by the return statement taken and its variable parts
generateMotilityReport(st, pat) ==
  LET abnormal == getAbnormalSegments(st)
      totalAbnormal == Len(abnormal.hypokinetic) + Len(abnormal.akinetic)
                         + Len(abnormal.dyskinetic)
      wmsi == calculateWMSI(st)
  IN IF totalAbnormal = 0 THEN Report("empty", << >>, "", << >>, 0)
     ELSE IF IsGlobal(pat, totalAbnormal)
     THEN Report("diffuse", DiffuseTiers(abnormal), DiffuseWording(pat),
                 << >>, wmsi)
     ELSE IF HasCurrentPattern(pat) /\ PATTERNS[pat].category = "dyssynchrony"
     THEN Report("dyssynchrony", << >>, DyssynchronyDescription(pat),
                 << >>, wmsi)
     ELSE Report("focal", << >>, "", FocalParts(abnormal), wmsi)

\* the sentences returned for a pattern before the territories are looked at
DirectSentence(pat) ==
  CASE pat = "dilated_cm" ->
         "Patron de hipoquinesia global, sugestivo de miocardiopatia dilatada."
    [] pat = "post_surgery" ->
         "Movimiento septal anomalo en relacion a antecedentes quirurgicos."
    [] pat = "bcri" ->
         "Patron de contraccion disincronico con movimiento septal paradojico, en relacion a BCRI."
    [] pat = "pacemaker" ->
         "Disincronia mecanica secundaria a estimulacion ventricular por marcapasos."
    [] pat = "bcrd" -> "Asincronia septal leve en relacion a BCRD."
    [] OTHER -> ""

\* the sentence of the switch on the pattern inside the pattern's category,
\* "" when no case returns
CategorySentence(pat) ==
  LET category == IF pat \in PatternNames THEN PATTERNS[pat].category
                  ELSE "undefined"
  IN CASE category = "combined" ->
            (CASE pat = "da_cx" ->
                    "Patron sugestivo de afectacion combinada DA-Cx."
               [] pat = "da_cd_wrap" -> "Patron compatible con DA envolvente."
               [] pat = "cx_cd" ->
                    "Patron sugestivo de afectacion combinada Cx-CD."
               [] pat = "multivessel" ->
                    "Patron sugestivo de enfermedad coronaria multivaso."
               [] pat = "left_main" ->
                    "Patron sugestivo de afectacion del Tronco de CI."
               [] pat = "da_distal" ->
                    "Patron sugestivo de lesion de DA distal."
               [] OTHER -> "")
       [] category = "dyssynchrony" ->
            (CASE pat \in {"bcri", "bcrd", "pacemaker"} -> DirectSentence(pat)
               [] OTHER -> "")
       [] category = "cardiomyopathy" ->
            (CASE pat = "dilated_cm" -> DirectSentence(pat)
               [] pat = "hypertensive_cm" ->
                    "Patron sugestivo de cardiopatia hipertensiva."
               [] pat = "chagas" ->
                    "Patron sugestivo de miocardiopatia chagasica."
               [] OTHER -> "")
       [] category = "takotsubo" ->
            "Patron sugestivo de Miocardiopatia por Estres (Takotsubo)."
       [] OTHER -> ""

\* a lookup without the five sentences tried first
PatternSentence_CategoryOnly(pat) ==
  IF pat = "none" THEN "" ELSE CategorySentence(pat)

\* the sentence of the active pattern, "" when the code falls through to
\* the territories
PatternSentence(pat) ==
  IF pat = "none" THEN ""
  ELSE IF DirectSentence(pat) # "" THEN DirectSentence(pat)
  ELSE CategorySentence(pat)

\* byTerritory[t]: the counts of a territory
TerritoryCounts(abnormal, t) ==
  [hipo |-> Len(SelectSeq(abnormal.hypokinetic,
                          LAMBDA id : SEGMENTS[id].artery = t)),
   aki |-> Len(SelectSeq(abnormal.akinetic,
                         LAMBDA id : SEGMENTS[id].artery = t)),
   dis |-> Len(SelectSeq(abnormal.dyskinetic,
                         LAMBDA id : SEGMENTS[id].artery = t))]

\* the severity words of a territory with hipoquinesia put first
TerritorySeverities_HypoFirst(counts) ==
  (IF counts.hipo > 0 THEN <<"Hipoquinesia">> ELSE << >>)
    \o (IF counts.aki > 0 THEN <<"Aquinesia">> ELSE << >>)
    \o (IF counts.dis > 0 THEN <<"Discinesia">> ELSE << >>)

TerritorySeverities(counts) ==
  (IF counts.aki > 0 THEN <<"Aquinesia">> ELSE << >>)
    \o (IF counts.hipo > 0 THEN <<"Hipoquinesia">> ELSE << >>)
    \o (IF counts.dis > 0 THEN <<"Discinesia">> ELSE << >>)

Conclusion(kind, sentence, clauses) ==
  [kind |-> kind, sentence |-> sentence, clauses |-> clauses]

generateConclusion(st, pat) ==
  LET abnormal == getAbnormalSegments(st)
      totalAbnormal == Len(abnormal.hypokinetic) + Len(abnormal.akinetic)
                         + Len(abnormal.dyskinetic)
      affectedTerritories ==
        SelectSeq(Arteries, LAMBDA t :
          LET c == TerritoryCounts(abnormal, t)
          IN c.hipo + c.aki + c.dis > 0)
  IN IF totalAbnormal = 0 THEN Conclusion("empty", "", << >>)
     ELSE IF PatternSentence(pat) # ""
     THEN Conclusion("pattern", PatternSentence(pat), << >>)
     ELSE IF Len(affectedTerritories) = 1
     THEN Conclusion("single", "",
            << [territory |-> affectedTerritories[1], severities |-> << >>] >>)
     ELSE Conclusion("multiple", "",
            [i \in DOMAIN affectedTerritories |->
               [territory |-> affectedTerritories[i],
                severities |->
                  TerritorySeverities(
                    TerritoryCounts(abnormal, affectedTerritories[i]))]])

\* the descriptions the diastolic classifier returns, character by
\* character (without accents)
Descriptions ==
  [waiting |->
     <<"E", "s", "p", "e", "r", "a", "n", "d", "o", " ", "d", "a", "t", "o",
       "s", " ", "D", "o", "p", "p", "l", "e", "r", ".", ".", "." >>,
   athlete |->
     <<"F", "u", "n", "c", "i", "o", "n", " ", "D", "i", "a", "s", "t", "o",
       "l", "i", "c", "a", " ", "N", "o", "r", "m", "a", "l", " ", "(", "P",
       "a", "t", "r", "o", "n", " ", "d", "e", " ", "l", "l", "e", "n", "a",
       "d", "o", " ", "v", "i", "g", "o", "r", "o", "s", "o", "/", "A", "t",
       "l", "e", "t", "a", ")", ".", " ", "P", "r", "e", "s", "i", "o", "n",
       "e", "s", " ", "d", "e", " ", "l", "l", "e", "n", "a", "d", "o", " ",
       "V", "I", " ", "n", "o", "r", "m", "a", "l", "e", "s", "." >>,
   restrictive |->
     <<"D", "i", "s", "f", "u", "n", "c", "i", "o", "n", " ", "D", "i", "a",
       "s", "t", "o", "l", "i", "c", "a", " ", "G", "r", "a", "d", "o", " ",
       "I", "I", "I", " ", "(", "P", "a", "t", "r", "o", "n", " ", "R", "e",
       "s", "t", "r", "i", "c", "t", "i", "v", "o", ")", ".", " ", "P", "r",
       "e", "s", "i", "o", "n", "e", "s", " ", "d", "e", " ", "l", "l", "e",
       "n", "a", "d", "o", " ", "V", "I", " ", "e", "l", "e", "v", "a", "d",
       "a", "s", "." >>,
   normal |->
     <<"F", "u", "n", "c", "i", "o", "n", " ", "D", "i", "a", "s", "t", "o",
       "l", "i", "c", "a", " ", "N", "o", "r", "m", "a", "l", ".", " ", "P",
       "r", "e", "s", "i", "o", "n", "e", "s", " ", "d", "e", " ", "l", "l",
       "e", "n", "a", "d", "o", " ", "V", "I", " ", "n", "o", "r", "m", "a",
       "l", "e", "s", "." >>,
   twoOfFour |->
     <<"F", "u", "n", "c", "i", "o", "n", " ", "D", "i", "a", "s", "t", "o",
       "l", "i", "c", "a", " ", "I", "n", "d", "e", "t", "e", "r", "m", "i",
       "n", "a", "d", "a", " ", "(", "2", "/", "4", " ", "c", "r", "i", "t",
       "e", "r", "i", "o", "s", " ", "a", "l", "t", "e", "r", "a", "d", "o",
       "s", ")", ".", " ", "S", "e", " ", "r", "e", "q", "u", "i", "e", "r",
       "e", " ", "e", "v", "a", "l", "u", "a", "c", "i", "o", "n", " ", "a",
       "d", "i", "c", "i", "o", "n", "a", "l", "." >>,
   gradeI |->
     <<"D", "i", "s", "f", "u", "n", "c", "i", "o", "n", " ", "D", "i", "a",
       "s", "t", "o", "l", "i", "c", "a", " ", "G", "r", "a", "d", "o", " ",
       "I", " ", "(", "R", "e", "l", "a", "j", "a", "c", "i", "o", "n", " ",
       "P", "r", "o", "l", "o", "n", "g", "a", "d", "a", ")", ".", " ", "P",
       "r", "e", "s", "i", "o", "n", "e", "s", " ", "d", "e", " ", "l", "l",
       "e", "n", "a", "d", "o", " ", "V", "I", " ", "n", "o", "r", "m", "a",
       "l", "e", "s", "." >>,
   fewData |->
     <<"F", "u", "n", "c", "i", "o", "n", " ", "D", "i", "a", "s", "t", "o",
       "l", "i", "c", "a", " ", "I", "n", "d", "e", "t", "e", "r", "m", "i",
       "n", "a", "d", "a", ".", " ", "D", "a", "t", "o", "s", " ", "i", "n",
       "s", "u", "f", "i", "c", "i", "e", "n", "t", "e", "s", " ", "p", "a",
       "r", "a", " ", "c", "l", "a", "s", "i", "f", "i", "c", "a", "r", "." >>,
   gradeII |->
     <<"D", "i", "s", "f", "u", "n", "c", "i", "o", "n", " ", "D", "i", "a",
       "s", "t", "o", "l", "i", "c", "a", " ", "G", "r", "a", "d", "o", " ",
       "I", "I", " ", "(", "P", "s", "e", "u", "d", "o", "n", "o", "r", "m",
       "a", "l", ")", ".", " ", "P", "r", "e", "s", "i", "o", "n", "e", "s",
       " ", "d", "e", " ", "l", "l", "e", "n", "a", "d", "o", " ", "V", "I",
       " ", "e", "l", "e", "v", "a", "d", "a", "s", "." >>,
   moreNeeded |->
     <<"F", "u", "n", "c", "i", "o", "n", " ", "D", "i", "a", "s", "t", "o",
       "l", "i", "c", "a", " ", "I", "n", "d", "e", "t", "e", "r", "m", "i",
       "n", "a", "d", "a", ".", " ", "E", "v", "a", "l", "u", "a", "c", "i",
       "o", "n", " ", "a", "d", "i", "c", "i", "o", "n", "a", "l", " ", "r",
       "e", "q", "u", "e", "r", "i", "d", "a", "." >>]

\* ------------------------------------------------------- the report form
\* The value "" of an input that was left empty.  Numbers of the form are
\* integers: vol_ai and vel_it in tenths, sc_display in hundredths,
\* uiState.bsa in ten-thousandths, everything else in its own unit.
Blank == 0 - 4

\* parseFloat(value)
parseFloat(value) == IF value = Blank THEN NaN ELSE value

\* the number a string becomes when it is compared with a number
ToNumber(value) == IF value = Blank THEN 0 ELSE value

\* a number taken as a condition: NaN and 0 are false
Truthy(n) == n # NaN /\ n # 0

\* comparisons of numbers: every comparison with NaN is false
NumGT(a, b) == a # NaN /\ b # NaN /\ a > b
NumGE(a, b) == a # NaN /\ b # NaN /\ a >= b
NumLT(a, b) == a # NaN /\ b # NaN /\ a < b

\* text.includes(sub)
Includes(text, sub) ==
  \E i \in 1..(Len(text) - Len(sub) + 1) :
    SubSeq(text, i, i + Len(sub) - 1) = sub

\* 0.007184 * weight^0.425 * height^0.725 for the weights and heights
\* entered (80 kg, 180 cm: 1.9964...)
calculateBodySurface(weight, height) ==
  IF ~Truthy(weight) \/ ~Truthy(height) THEN 0
  ELSE CASE weight = 80 /\ height = 180 -> 19964

DiastolicResult(grade, description) ==
  [grade |-> grade, description |-> description]

\* diastolicResult: null of a new UIController
NoDiastolicResult == DiastolicResult("", << >>)

classifyDiastolicFunction(E, A, ePrime, LAVolIndex, TRVel, LVEF, wallMotion) ==
  IF ~Truthy(E) \/ ~Truthy(A) \/ ~Truthy(ePrime)
  THEN DiastolicResult("Indeterminado", Descriptions.waiting)
  ELSE IF E > 2 * A /\ ePrime >= 10
  THEN DiastolicResult("Normal", Descriptions.athlete)
  ELSE IF E > 2 * A /\ ePrime < 10
  THEN DiastolicResult("III", Descriptions.restrictive)
  ELSE
    LET diseased == NumLT(LVEF, 50) \/ wallMotion # "normal"
        criteria == (IF ePrime < 9 THEN 1 ELSE 0)
                      + (IF E > 14 * ePrime THEN 1 ELSE 0)
                      + (IF NumGT(LAVolIndex, 340) THEN 1 ELSE 0)
                      + (IF NumGT(TRVel, 28) THEN 1 ELSE 0)
        criteriaP == (IF E > 14 * ePrime THEN 1 ELSE 0)
                       + (IF NumGT(TRVel, 28) THEN 1 ELSE 0)
                       + (IF NumGT(LAVolIndex, 340) THEN 1 ELSE 0)
        dataPoints == 1 + (IF NumGT(TRVel, 0) THEN 1 ELSE 0)
                        + (IF LAVolIndex # NaN THEN 1 ELSE 0)
    IN IF ~diseased /\ criteria < 2
       THEN DiastolicResult("Normal", Descriptions.normal)
       ELSE IF ~diseased /\ criteria = 2
       THEN DiastolicResult("Indeterminado", Descriptions.twoOfFour)
       ELSE IF 10 * E <= 8 * A /\ E <= 50
       THEN DiastolicResult("I", Descriptions.gradeI)
       ELSE IF dataPoints < 2
       THEN DiastolicResult("Indeterminado", Descriptions.fewData)
       ELSE IF criteriaP >= 2
       THEN DiastolicResult("II", Descriptions.gradeII)
       ELSE IF criteriaP = 0 \/ (criteriaP = 1 /\ dataPoints = 3)
       THEN DiastolicResult("I", Descriptions.gradeI)
       ELSE DiastolicResult("Indeterminado", Descriptions.moreNeeded)

\* Math.round(4 * v^2 + rap), v in tenths of m/s
PSAPOf(trVelocity, rap) == (4 * trVelocity * trVelocity + 100 * rap + 50) \div 100

\* calculateBSA: this.state.bsa and the sc_display field, which takes
\* bsa.toFixed(2) in hundredths
calculateBSA(ui) ==
  LET weight == parseFloat(ui.form.peso)
      height == parseFloat(ui.form.altura)
  IN IF Truthy(weight) /\ Truthy(height)
     THEN LET bsa == calculateBodySurface(weight, height)
          IN [form |-> [ui.form EXCEPT !.sc_display = (bsa + 50) \div 100],
              state |-> [ui.state EXCEPT !.bsa = bsa]]
     ELSE [ui EXCEPT !.form.sc_display = Blank]

\* calculateLVMassAndGeometry: with ddvi, pp or siv empty it only shows "-"
calculateLVMassAndGeometry(ui) == ui

calculateDiastolicFunction(ui) ==
  [ui EXCEPT !.state.diastolicResult =
     classifyDiastolicFunction(parseFloat(ui.form.onda_e),
                               parseFloat(ui.form.onda_a),
                               parseFloat(ui.form.onda_e_prime),
                               parseFloat(ui.form.vol_ai),
                               parseFloat(ui.form.vel_it),
                               parseFloat(ui.form.fevi),
                               ui.form.motilidad_global)]

\* calculatePSAP: without a velocity it returns and this.state.psap stays
calculatePSAP(ui) ==
  LET trVel == parseFloat(ui.form.vel_it)
      rap == IF Truthy(parseFloat(ui.form.pad)) THEN parseFloat(ui.form.pad)
             ELSE 5
  IN IF ~Truthy(trVel) \/ trVel <= 0 THEN ui
     ELSE [ui EXCEPT !.state.psap = PSAPOf(trVel, rap)]

\* calculateAll on the pair of the form and UIController.state
calculateAll(ui) ==
  calculatePSAP(calculateDiastolicFunction(
    calculateLVMassAndGeometry(calculateBSA(ui))))

\* the fields whose input or change event runs calculateAll
calcFields ==
  {"peso", "altura", "sexo", "siv", "pp", "ddvi", "fevi", "onda_e", "onda_a",
   "onda_e_prime", "vol_ai", "vel_it", "pad", "motilidad_global", "ao_raiz",
   "ao_asc"}

\* QualityControl.runChecks and hasErrors: the rules of level 'error'
hasErrors(f) ==
  \/ /\ f.motilidad_global = "normal"
     /\ Truthy(parseFloat(f.fevi))
     /\ parseFloat(f.fevi) < 50
  \/ /\ f.ea_grado = "severa"
     /\ Truthy(parseFloat(f.ea_ava))
     /\ parseFloat(f.ea_ava) > 12
  \/ /\ Truthy(parseFloat(f.dsvi))
     /\ Truthy(parseFloat(f.ddvi))
     /\ parseFloat(f.dsvi) >= parseFloat(f.ddvi)

\* ----------------------------------------------------------- the report
\* a conclusion line: its number, its subject, the variant of the sentence,
\* the things it names and the number it shows
Emit(r, topic, detail, items, value) ==
  [r EXCEPT !.lines =
     Append(@, [num |-> r.num, topic |-> topic, detail |-> detail,
                items |-> items, value |-> value])]

\* conclusionNum++
Inc(r) == [r EXCEPT !.num = @ + 1]

\* 1. rhythm and conduction
RhythmLine(r, f) ==
  Inc(Emit(r, "ritmo",
           IF f.conduccion = "normal" THEN "ritmo" ELSE "ritmo con conduccion",
           << >>, Blank))

\* fevi >= 50, fevi >= 40, else: fevi is the string of the input
SystolicDetail(fevi) ==
  IF ToNumber(fevi) >= 50 THEN "conservada"
  ELSE IF ToNumber(fevi) >= 40 THEN "levemente deprimida"
  ELSE "severamente deprimida"

\* 2. left ventricle: no geometry text (this.state.geometry is ''), no
\* motility text (the page builds its UIController without a motility
\* controller), then the systolic function
LeftVentricleLine(r, f) ==
  Inc(Emit(r, "vi", SystolicDetail(f.fevi), << >>,
           IF ToNumber(f.fevi) >= 50 THEN Blank ELSE f.fevi))

\* 3. diastolic function, by the first word group found in the description
DiastolicDetail(result) ==
  IF Includes(result.description, <<"N", "o", "r", "m", "a", "l">>)
  THEN "Normal"
  ELSE IF Includes(result.description, <<"G", "r", "a", "d", "o", " ", "I">>)
  THEN "Grado I"
  ELSE IF Includes(result.description,
                   <<"G", "r", "a", "d", "o", " ", "I", "I">>)
  THEN "Grado II"
  ELSE IF Includes(result.description,
                   <<"G", "r", "a", "d", "o", " ", "I", "I", "I">>)
  THEN "Grado III"
  ELSE IF result.grade = "Indeterminado" THEN "Indeterminada"
  ELSE "description"

DiastolicLine(r, st) ==
  IF st.diastolicResult # NoDiastolicResult
  THEN Inc(Emit(r, "diastolica", DiastolicDetail(st.diastolicResult),
                << >>, Blank))
  ELSE r

\* 4. left atrium, volAi in tenths of ml/m2
LeftAtriumDetail(volAi) ==
  IF NumGT(volAi, 480) THEN "severamente dilatada"
  ELSE IF NumGE(volAi, 420) THEN "moderadamente dilatada"
  ELSE IF NumGE(volAi, 340) THEN "levemente dilatada"
  ELSE "dimensiones conservadas"

LeftAtriumLine(r, f) ==
  Inc(Emit(r, "ai", LeftAtriumDetail(parseFloat(f.vol_ai)), << >>, Blank))

\* 5. mitral valve
MitralLine(r, f) ==
  IF f.morf_mitral \in {"prolapso", "flail"}
  THEN Inc(Emit(r, "mitral", f.morf_mitral,
                IF f.im_grado # "no" THEN <<"insuficiencia">> ELSE << >>,
                Blank))
  ELSE IF f.im_grado # "no" \/ f.em_grado # "no"
  THEN Inc(Emit(r, "mitral", "valvular",
                (IF f.im_grado # "no" THEN <<"insuficiencia">> ELSE << >>)
                  \o (IF f.em_grado # "no" THEN <<"estenosis">> ELSE << >>),
                Blank))
  ELSE r

\* AorticRegurgitationModule.generateConclusion: "" without data
iaoAdv(f) == IF f.iao_data THEN "Insuficiencia Aortica" ELSE ""

\* an aortic line that takes a number also when it has no content
AorticValveLine_AlwaysCounts(r, f) ==
  IF \/ f.morf_aortica \in {"bicuspide", "calcificacion masiva"}
     \/ f.ea_grado # "no" \/ f.ia_grado # "no" \/ iaoAdv(f) # ""
  THEN LET parts ==
             (IF f.ea_grado # "no" THEN <<"estenosis">> ELSE << >>)
               \o (IF iaoAdv(f) # "" THEN <<"insuficiencia avanzada">>
                   ELSE IF f.ia_grado # "no" THEN <<"insuficiencia">>
                   ELSE << >>)
           hasContent == f.morf_aortica = "bicuspide" \/ Len(parts) > 0
       IN IF hasContent
          THEN Inc(Emit(r, "aortica",
                        IF f.morf_aortica = "bicuspide" THEN "bicuspide"
                        ELSE "valvular",
                        parts, Blank))
          ELSE Inc(r)
  ELSE r

\* 6. aortic valve: the line and its number only when it has content
AorticValveLine(r, f) ==
  IF \/ f.morf_aortica \in {"bicuspide", "calcificacion masiva"}
     \/ f.ea_grado # "no" \/ f.ia_grado # "no" \/ iaoAdv(f) # ""
  THEN LET parts ==
             (IF f.ea_grado # "no" THEN <<"estenosis">> ELSE << >>)
               \o (IF iaoAdv(f) # "" THEN <<"insuficiencia avanzada">>
                   ELSE IF f.ia_grado # "no" THEN <<"insuficiencia">>
                   ELSE << >>)
           hasContent == f.morf_aortica = "bicuspide" \/ Len(parts) > 0
       IN IF hasContent
          THEN Inc(Emit(r, "aortica",
                        IF f.morf_aortica = "bicuspide" THEN "bicuspide"
                        ELSE "valvular",
                        parts, Blank))
          ELSE r
  ELSE r

\* a band with moderada starting above 2.5
AorticBand_LateModerate(diameter, sc) ==
  IF diameter * 1000 > 300 * sc THEN "severa"
  ELSE IF diameter * 1000 > 250 * sc THEN "moderada"
  ELSE "leve"

\* the band of an indexed diameter (diameter / sc / 10, sc in hundredths):
\* > 3.0 severa, >= 2.5 moderada, else leve
AorticBand(diameter, sc) ==
  IF diameter * 1000 > 300 * sc THEN "severa"
  ELSE IF diameter * 1000 >= 250 * sc THEN "moderada"
  ELSE "leve"

\* the dilated segments of the aorta with their bands
aorticDilations(f) ==
  LET rootLimit == IF f.sexo = "M" THEN 215 ELSE 211
      ascLimit == IF f.sexo = "M" THEN 211 ELSE 203
  IN (IF f.ao_raiz # Blank /\ f.ao_raiz * 1000 > rootLimit * f.sc_display
      THEN << [type |-> "raiz aortica",
               severity |-> AorticBand(f.ao_raiz, f.sc_display)] >>
      ELSE << >>)
       \o (IF f.ao_asc # Blank /\ f.ao_asc * 1000 > ascLimit * f.sc_display
           THEN << [type |-> "aorta ascendente",
                    severity |-> AorticBand(f.ao_asc, f.sc_display)] >>
           ELSE << >>)

\* aorticDilations.reduce(..., 'leve'): the worst band, by the index in
\* severities = ['leve', 'moderada', 'severa']
RECURSIVE MaxSeverity(_, _)
MaxSeverity(max, dilations) ==
  LET indexOf(severity) ==
        CASE severity = "leve" -> 0 [] severity = "moderada" -> 1
          [] severity = "severa" -> 2
  IN IF dilations = << >> THEN max
     ELSE MaxSeverity(IF indexOf(Head(dilations).severity) > indexOf(max)
                      THEN Head(dilations).severity ELSE max,
                      Tail(dilations))

\* 6. dilation of the aortic root and of the ascending aorta
AorticDilationLine(r, f) ==
  IF f.sc_display # Blank /\ Len(aorticDilations(f)) > 0
  THEN Inc(Emit(r, "dilatacion aortica",
                MaxSeverity("leve", aorticDilations(f)),
                [i \in DOMAIN aorticDilations(f) |->
                   aorticDilations(f)[i].type],
                Blank))
  ELSE r

\* the dilated right chambers with their severities
rightChamberText(f) ==
  LET adArea == parseFloat(f.ad_area)
      vdBasal == parseFloat(f.vd_basal)
  IN (IF Truthy(adArea) /\ adArea > 18
      THEN << [chamber |-> "auricula derecha",
               severity |-> IF adArea > 25 THEN "severa"
                            ELSE "leve-moderada"] >>
      ELSE << >>)
       \o (IF Truthy(vdBasal) /\ vdBasal > 41
           THEN << [chamber |-> "ventriculo derecho",
                    severity |-> IF vdBasal > 50 THEN "severa"
                                 ELSE IF vdBasal >= 46 THEN "moderada"
                                 ELSE "leve"] >>
           ELSE << >>)

\* 7. right chambers
RightChambersLine(r, f) ==
  IF f.ad_estado = "dilatada" \/ f.vd_estado = "dilatado"
  THEN Inc(Emit(r, "cavidades derechas", "dilatacion", rightChamberText(f),
                Blank))
  ELSE r

\* 8. pulmonary hypertension
PulmonaryLine(r, st) ==
  IF st.psap > 0
  THEN Inc(Emit(r, "htp",
                IF st.psap <= 35 THEN "baja"
                ELSE IF st.psap <= 45 THEN "intermedia"
                ELSE "signos",
                << >>, st.psap))
  ELSE r

\* tapse < 16, tapse the string of the input
RVDysfunction(f) == ToNumber(f.tapse) < 16

\* 9. right ventricular dysfunction
RVLine(r, f) ==
  IF RVDysfunction(f)
  THEN Inc(Emit(r, "vd", "disfuncion", << >>, Blank))
  ELSE r

\* the statement on the right ventricle in the body of the report
RVFunctionBody(f) ==
  IF ToNumber(f.tapse) >= 17
       /\ (~Truthy(parseFloat(f.s_prima_vd)) \/ parseFloat(f.s_prima_vd) >= 10)
  THEN "conservada" ELSE "deprimida"

\* the conclusions, built line by line with conclusionNum
Conclusions(f, st) ==
  RVLine(
    PulmonaryLine(
      RightChambersLine(
        AorticDilationLine(
          AorticValveLine(
            MitralLine(
              LeftAtriumLine(
                DiastolicLine(
                  LeftVentricleLine(
                    RhythmLine([lines |-> << >>, num |-> 1], f), f),
                  st), f), f), f), f), f), st), f).lines

\* the text area before a report was generated
NoReport == [generated |-> FALSE, rvFunction |-> "", conclusions |-> << >>]

\* the text of the report: the right-ventricle statement of the body and
\* the conclusions
ReportText(f, st) ==
  [generated |-> TRUE, rvFunction |-> RVFunctionBody(f),
   conclusions |-> Conclusions(f, st)]

\* ------------------------------------------------------ the Lanus method
NoLanus == [volumeIndexed |-> Blank, classification |-> ""]

\* MiniCalculators.calculateLanusAI; NoLanus stands for null.  With the
\* area in cm2, the length in mm and bsa in ten-thousandths,
\* volumeIndexed = 0.85 * area^2 / (longitud / 10) / bsa
\*               = 85000 * area^2 / (longitud * bsa);
\* the tiers are < 34 Normal, <= 41 Leve, <= 48 Moderada, else Severa, and
\* the volume returned is volumeIndexed.toFixed(1), in tenths
calculateLanusAI(area4c, longitudMm, bsa) ==
  IF ~Truthy(area4c) \/ ~Truthy(longitudMm) \/ ~Truthy(bsa) THEN NoLanus
  ELSE LET volume == 85000 * area4c * area4c
           unit == longitudMm * bsa
       IN [volumeIndexed |-> (20 * volume + unit) \div (2 * unit),
           classification |->
             IF volume < 34 * unit THEN "Normal"
             ELSE IF volume <= 41 * unit THEN "Dilatacion Leve"
             ELSE IF volume <= 48 * unit THEN "Dilatacion Moderada"
             ELSE "Dilatacion Severa"]

\* the result for the Lanus inputs of the form; this.state.bsa || 1
LanusOfForm(f, st) ==
  calculateLanusAI(parseFloat(f.lanus_area_4c), parseFloat(f.lanus_longitud),
                   IF st.bsa = 0 THEN 10000 ELSE st.bsa)

\* ---------------------------------------------------- the page's actions
\* this.state of a new UIController
InitialUIState ==
  [bsa |-> 0, psap |-> 0, diastolicResult |-> NoDiastolicResult,
   geometry |-> ""]

\* the page as it loads: every input empty, every select at its first option
BlankForm ==
  [peso |-> Blank, altura |-> Blank, sc_display |-> Blank, sexo |-> "M",
   siv |-> Blank, pp |-> Blank, ddvi |-> Blank, dsvi |-> Blank,
   fevi |-> Blank, motilidad_global |-> "normal",
   onda_e |-> Blank, onda_a |-> Blank, onda_e_prime |-> Blank,
   vol_ai |-> Blank, vel_it |-> Blank, pad |-> Blank,
   ao_raiz |-> Blank, ao_asc |-> Blank,
   ad_estado |-> "normal", vd_estado |-> "normal",
   ad_area |-> Blank, vd_basal |-> Blank,
   tapse |-> Blank, s_prima_vd |-> Blank,
   morf_mitral |-> "normal", im_grado |-> "no", em_grado |-> "no",
   morf_aortica |-> "normal", ea_grado |-> "no", ia_grado |-> "no",
   ea_ava |-> Blank, iao_data |-> FALSE, conduccion |-> "normal",
   lanus_area_4c |-> Blank, lanus_longitud |-> Blank]

\* a study without findings, as the browser restores it on a reload
NormalStudy ==
  [BlankForm EXCEPT
     !.peso = 80, !.altura = 180, !.fevi = 60,
     !.onda_e = 80, !.onda_a = 60, !.onda_e_prime = 10,
     !.vol_ai = 300, !.tapse = 20, !.s_prima_vd = 12]

\* a study with findings
AbnormalStudy ==
  [BlankForm EXCEPT
     !.peso = 80, !.altura = 180, !.fevi = 35,
     !.motilidad_global = "hipo_global",
     !.onda_e = 100, !.onda_a = 40, !.onda_e_prime = 6,
     !.vol_ai = 450, !.vel_it = 30, !.ao_raiz = 50,
     !.ad_estado = "dilatada", !.vd_estado = "dilatado",
     !.ad_area = 20, !.vd_basal = 48, !.tapse = 14, !.s_prima_vd = 8,
     !.im_grado = "leve", !.lanus_area_4c = 25, !.lanus_longitud = 64]

\* the values typed or chosen, by field
FieldInputs ==
  [peso |-> {Blank, 80}, altura |-> {Blank, 180}, sexo |-> {"M", "F"},
   fevi |-> {Blank, 35, 45, 60},
   motilidad_global |-> {"normal", "hipo_global"},
   onda_e |-> {Blank, 40, 100}, onda_a |-> {Blank, 40, 60},
   onda_e_prime |-> {Blank, 6, 10},
   vol_ai |-> {Blank, 300, 415, 480, 500}, vel_it |-> {Blank, 30},
   ao_raiz |-> {Blank, 43, 45, 50, 60, 70}, ao_asc |-> {Blank, 43, 55},
   ad_estado |-> {"normal", "dilatada"}, vd_estado |-> {"normal", "dilatado"},
   ad_area |-> {Blank, 18, 30}, vd_basal |-> {Blank, 41, 48},
   tapse |-> {Blank, 14, 16, 20}, s_prima_vd |-> {Blank, 8},
   morf_mitral |-> {"normal", "prolapso", "calcificacion"},
   im_grado |-> {"no", "leve"}, em_grado |-> {"no", "leve"},
   morf_aortica |-> {"normal", "bicuspide", "calcificacion masiva"},
   ea_grado |-> {"no", "leve"}, ia_grado |-> {"no", "leve"},
   iao_data |-> BOOLEAN, conduccion |-> {"normal", "bcri"},
   lanus_area_4c |-> {Blank, 25}, lanus_longitud |-> {Blank, 64}]

\* UIController.init on a page whose inputs hold f: no report, no Lanus
\* result, and the first calculateAll
PageLoaded(f) ==
  /\ form = calculateAll([form |-> f, state |-> InitialUIState]).form
  /\ uiState = calculateAll([form |-> f, state |-> InitialUIState]).state
  /\ lanusResult = ""
  /\ resultado = NoReport
  /\ uiSteps = 0
  /\ uiLast = "init"

\* the user types or chooses a value; the listener of a calculation field
\* runs calculateAll
edit(field, value) ==
  /\ uiSteps < MaxUISteps
  /\ form[field] # value
  /\ LET typed == [form |-> [form EXCEPT ![field] = value], state |-> uiState]
         after == IF field \in calcFields THEN calculateAll(typed) ELSE typed
     IN /\ form' = after.form
        /\ uiState' = after.state
  /\ uiSteps' = uiSteps + 1
  /\ uiLast' = "edit"
  /\ UNCHANGED <<lanusResult, resultado, storeVars, voiceVars>>

\* btn_calc_lanus
calcLanus ==
  /\ uiSteps < MaxUISteps
  /\ uiSteps' = uiSteps + 1
  /\ uiLast' = "calcLanus"
  /\ lanusResult' = IF LanusOfForm(form, uiState) = NoLanus THEN lanusResult
                    ELSE LanusOfForm(form, uiState).classification
  /\ UNCHANGED <<form, uiState, resultado, storeVars, voiceVars>>

\* btn_inject_lanus: the volume goes to vol_ai; the result is shown only
\* when the Lanus box shows nothing yet
injectLanus ==
  /\ uiSteps < MaxUISteps
  /\ uiSteps' = uiSteps + 1
  /\ uiLast' = "injectLanus"
  /\ LET result == LanusOfForm(form, uiState)
     IN IF result = NoLanus THEN UNCHANGED <<form, lanusResult>>
        ELSE /\ form' = [form EXCEPT !.vol_ai = result.volumeIndexed]
             /\ lanusResult' = IF lanusResult = "" THEN result.classification
                               ELSE lanusResult
  /\ UNCHANGED <<uiState, resultado, storeVars, voiceVars>>

\* btn_generate: calculateAll, the quality control, then the text
generateReport ==
  /\ uiSteps < MaxUISteps
  /\ uiSteps' = uiSteps + 1
  /\ LET after == calculateAll([form |-> form, state |-> uiState])
     IN /\ form' = after.form
        /\ uiState' = after.state
        /\ IF hasErrors(after.form)
           THEN /\ uiLast' = "generateReport rejected"
                /\ UNCHANGED resultado
           ELSE /\ uiLast' = "generateReport"
                /\ resultado' = ReportText(after.form, after.state)
  /\ UNCHANGED <<lanusResult, storeVars, voiceVars>>

\* ------------------------------------------------------ voice recognition
\* the handlers of a VoiceRecognition whose browser has a recognizer
ErrorKinds == {"no-speech", "aborted", "network"}

\* the delays of the restart timers, in ms: onend 100, onerror 500
RestartDelays == {100, 500}

\* setTimeout(restart, delay)
setTimeout(t, delay) == [t EXCEPT ![delay] = @ + 1]

VoiceLog(command, step, started) ==
  [command |-> command, step |-> step, started |-> started]

\* new VoiceRecognition(ui)
VoiceLoaded ==
  /\ voice = [isActive |-> FALSE, manualStop |-> FALSE]
  /\ recognizer = "idle"
  /\ timers = [delay \in RestartDelays |-> 0]
  /\ voiceLog = VoiceLog("none", "init", FALSE)

\* recognition.start(): it starts an idle recognizer and raises
\* InvalidStateError (caught by every caller) on any other
RecognizerStart(r) == IF r = "idle" THEN "listening" ELSE r

\* recognition.stop(): a listening recognizer ends later
RecognizerStop(r) == IF r = "listening" THEN "stopping" ELSE r

start(command) ==
  /\ UNCHANGED <<storeVars, uiVars>>
  /\ voice' = [isActive |-> TRUE, manualStop |-> FALSE]
  /\ recognizer' = RecognizerStart(recognizer)
  /\ voiceLog' = VoiceLog("start", command, TRUE)
  /\ UNCHANGED timers

stop(command) ==
  /\ UNCHANGED <<storeVars, uiVars>>
  /\ voice' = [isActive |-> FALSE, manualStop |-> TRUE]
  /\ recognizer' = RecognizerStop(recognizer)
  /\ voiceLog' = VoiceLog("stop", command, FALSE)
  /\ UNCHANGED timers

toggle == IF voice.isActive THEN stop("toggle") ELSE start("toggle")

\* this.isActive && !this.manualStop
ShouldRestart(v) == v.isActive /\ ~v.manualStop

\* onend: the recognizer has ended; the restart is set for 100 ms later
handleEnd ==
  /\ UNCHANGED <<storeVars, uiVars>>
  /\ recognizer \in {"listening", "stopping"}
  /\ recognizer' = "idle"
  /\ IF ShouldRestart(voice)
     THEN /\ timers[100] + timers[500] < MaxTimers
          /\ timers' = setTimeout(timers, 100)
     ELSE UNCHANGED timers
  /\ voiceLog' = [voiceLog EXCEPT !.step = "handleEnd", !.started = FALSE]
  /\ UNCHANGED voice

\* onerror: 'no-speech' and 'aborted' are ignored, for the others the
\* restart is set for 500 ms later
handleError(error) ==
  /\ UNCHANGED <<storeVars, uiVars>>
  /\ recognizer \in {"listening", "stopping"}
  /\ IF error \notin {"no-speech", "aborted"} /\ ShouldRestart(voice)
     THEN /\ timers[100] + timers[500] < MaxTimers
          /\ timers' = setTimeout(timers, 500)
     ELSE UNCHANGED timers
  /\ voiceLog' = [voiceLog EXCEPT !.step = "handleError", !.started = FALSE]
  /\ UNCHANGED <<voice, recognizer>>

\* a restart timer fires: recognition.start(), whatever was done since
restartTimer(delay) ==
  /\ UNCHANGED <<storeVars, uiVars>>
  /\ timers[delay] > 0
  /\ timers' = [timers EXCEPT ![delay] = @ - 1]
  /\ recognizer' = RecognizerStart(recognizer)
  /\ voiceLog' = [voiceLog EXCEPT !.step = "restartTimer", !.started = TRUE]
  /\ UNCHANGED voice

\* --------------------------------------------------------- specifications
\* Inputs of the calls.  The views of the repository call toggleSegment with
\* ids of MotilityModel.SEGMENTS only.
SegInputs == {1, 4, 5, 17}
LevelInputs == 0..5
PatternInputs == PatternNames \cup {"none", "unknown_pattern"}

\* a first visit: nothing stored yet
EmptyStorage == << >>

\* what an earlier session left behind: segment 1 akinetic, 4 hypokinetic,
\* 5 dyskinetic, no pattern
EarlierSession ==
  SetItem(SetItem(EmptyStorage, StateKey,
                  Stringify([i \in SegmentIds |->
                               CASE i = 1 -> 3 [] i = 4 -> 2 [] i = 5 -> 4
                                 [] OTHER -> 1])),
          PatternKey, "none")

\* a store that takes every write
NoFailingKeys == { }

Init ==
  /\ \E ls \in {EmptyStorage, EarlierSession} : Constructed(ls)
  /\ failingKeys = NoFailingKeys
  /\ PageLoaded(BlankForm)
  /\ VoiceLoaded

Next ==
  \/ Construct
  \/ \E id \in SegInputs : toggleSegment(id)
  \/ \E id \in SegInputs, level \in LevelInputs : setSegmentState(id, level)
  \/ \E name \in PatternInputs : setPattern(name)
  \/ reset

Spec == Init /\ [][Next]_vars

\* The store as a bare API: any segment id, any content of the key-value
\* store (a string that is not JSON, an empty object, a partial object).
AnyIds == {0, 5, 18}
AnyPatternInputs == {"none", "chagas", "bcrd", "unknown_pattern"}
AnyStorages ==
  {EmptyStorage,
   EarlierSession,
   SetItem(EmptyStorage, StateKey, CorruptText),
   SetItem(SetItem(EmptyStorage, StateKey, CorruptText), PatternKey, "chagas"),
   SetItem(EmptyStorage, StateKey, JsonText(<< >>)),
   SetItem(EmptyStorage, StateKey, JsonText([i \in {1, 2} |-> 2]))}

InitAny ==
  /\ \E ls \in AnyStorages : Constructed(ls)
  /\ failingKeys = NoFailingKeys
  /\ PageLoaded(BlankForm)
  /\ VoiceLoaded

NextAny ==
  \/ Construct
  \/ \E id \in AnyIds : toggleSegment(id)
  \/ \E id \in AnyIds, level \in LevelInputs : setSegmentState(id, level)
  \/ \E name \in AnyPatternInputs : setPattern(name)
  \/ reset

SpecAny == InitAny /\ [][NextAny]_vars

\* The store with callbacks registered, some of which throw, over a
\* key-value store whose writes may raise (quota exceeded).
MaxListeners == 2
ListenerSegInputs == {1, 5}
ListenerLevelInputs == {0, 3, 5}
ListenerPatternInputs == {"none", "chagas", "unknown_pattern"}

InitListeners ==
  /\ Constructed(EmptyStorage)
  /\ failingKeys \in SUBSET {StateKey, PatternKey}
  /\ PageLoaded(BlankForm)
  /\ VoiceLoaded

NextListeners ==
  \/ \E kind \in ListenerKinds :
       Len(listeners) < MaxListeners /\ addListener(kind)
  \/ \E id \in ListenerSegInputs : toggleSegment(id)
  \/ \E id \in ListenerSegInputs, level \in ListenerLevelInputs :
       setSegmentState(id, level)
  \/ \E name \in ListenerPatternInputs : setPattern(name)
  \/ reset

SpecListeners == InitListeners /\ [][NextListeners]_vars

\* The store as the report panel reads it: segments set one by one and
\* patterns applied over what an earlier session left, then the texts read.
MaxReportCalls == 3
ReportSegInputs == {1, 4, 5, 7, 13, 17}
ReportPatternInputs ==
  {"none", "unknown_pattern", "dilated_cm", "hypertensive_cm", "chagas",
   "bcri", "bcrd", "pacemaker", "post_surgery", "da_cx", "takotsubo_mid",
   "ischemic_cx", "aneurysm_apical"}

\* an earlier session that left every segment dyskinetic
AllDyskinetic ==
  SetItem(SetItem(EmptyStorage, StateKey,
                  Stringify([i \in SegmentIds |-> 4])),
          PatternKey, "none")

InitReport ==
  /\ \E ls \in {EmptyStorage, EarlierSession, AllDyskinetic} : Constructed(ls)
  /\ failingKeys = NoFailingKeys
  /\ PageLoaded(BlankForm)
  /\ VoiceLoaded

NextReport ==
  /\ calls < MaxReportCalls
  /\ \/ \E id \in ReportSegInputs, level \in 1..4 : setSegmentState(id, level)
     \/ \E name \in ReportPatternInputs : setPattern(name)

SpecReport == InitReport /\ [][NextReport]_vars

\* The report form: a page loaded empty or with a study in its inputs, the
\* user's edits and buttons.
InitUI ==
  /\ Constructed(EmptyStorage)
  /\ failingKeys = NoFailingKeys
  /\ \E f \in {BlankForm, NormalStudy, AbnormalStudy} : PageLoaded(f)
  /\ VoiceLoaded

NextUI ==
  \/ \E field \in DOMAIN FieldInputs :
       \E value \in FieldInputs[field] : edit(field, value)
  \/ calcLanus
  \/ injectLanus
  \/ generateReport

SpecUI == InitUI /\ [][NextUI]_vars

\* Voice recognition: the microphone button, the recognizer's events and
\* the restart timers, in any order.
InitVoice ==
  /\ Constructed(EmptyStorage)
  /\ failingKeys = NoFailingKeys
  /\ PageLoaded(BlankForm)
  /\ VoiceLoaded

NextVoice ==
  \/ start("start")
  \/ stop("stop")
  \/ toggle
  \/ handleEnd
  \/ \E error \in ErrorKinds : handleError(error)
  \/ \E delay \in RestartDelays : restartTimer(delay)

SpecVoice == InitVoice /\ [][NextVoice]_vars

\* ------------------------------------------------------------ properties
Severities == 1..4
Mutators == {"toggleSegment", "setSegmentState", "setPattern", "reset"}

\* the last call was a mutating call that completed
CompletedMutation ==
  /\ alive
  /\ lastCall.op \in Mutators
  /\ ~lastCall.threw
  /\ lastCall.op = "setSegmentState" => lastCall.level \in Severities

\* number of abnormal segments of a territory, from MotilityModel.TERRITORIES
AbnormalIn(segs) == Cardinality({i \in segs : Get(state, i) \in 2..4})
TerritoryCount(a) ==
  CASE a = "DA" -> AbnormalIn(DASegments)
    [] a = "CD" -> AbnormalIn(CDSegments)
    [] a = "Cx" -> AbnormalIn(CxSegments)

\* C1: in every reachable state of the store, for any persisted content and
\* any segment-id argument, the severity mapping has an entry for exactly
\* the ids 1..17 and every entry is one of the severities 1..4.
C1_MappingIsTotalAndValid ==
  alive => /\ DOMAIN state = SegmentIds
           /\ \A i \in DOMAIN state : state[i] \in Severities

\* Normal -> Hypokinetic -> Akinetic -> Dyskinetic -> Normal
CycleNext(sev) == CASE sev = 1 -> 2 [] sev = 2 -> 3 [] sev = 3 -> 4 [] sev = 4 -> 1

RECURSIVE Advance(_, _)
Advance(sev, n) == IF n = 0 THEN sev ELSE Advance(CycleNext(sev), n - 1)

\* C2: for every segment and every starting severity, n consecutive
\* toggleSegment calls on the segment advance it n steps along the cycle
\* Normal -> Hypokinetic -> Akinetic -> Dyskinetic -> Normal, and four of
\* them return it to its original severity.
C2_ToggleCycle ==
  (alive /\ lastCall.op = "toggleSegment" /\ toggleRun.orig \in Severities) =>
    /\ state[toggleRun.id] = Advance(toggleRun.orig, toggleRun.n)
    /\ toggleRun.n = 4 => state[toggleRun.id] = toggleRun.orig

C2_Witness ==
  /\ lastCall.op = "toggleSegment"
  /\ toggleRun.n = 4
  /\ toggleRun.orig = 3
  /\ state[toggleRun.id] = 3

\* C3: constructing the store over a stored segment-severity string that is
\* not JSON does not throw and yields all 17 segments Normal and pattern
\* "none".
C3_CorruptYieldsDefault ==
  (/\ lastCall.op = "constructor"
   /\ HasItem(localStorage, StateKey)
   /\ ParseThrows(localStorage[StateKey])) =>
    /\ ~lastCall.threw
    /\ alive
    /\ state = getDefaultState
    /\ pattern = "none"

MaxTerritories ==
  {a \in Range(Arteries) :
     \A b \in Range(Arteries) : TerritoryCount(b) <= TerritoryCount(a)}

\* C6: when several territories tie for the maximum abnormal count, the
\* dominant territory is the first of them in the order DA, CD, Cx.
C6_TieGivesFirst ==
  (alive /\ getAffectedTerritory(state) \in Range(Arteries)) =>
    \E i \in DOMAIN Arteries :
      /\ Arteries[i] = getAffectedTerritory(state)
      /\ Arteries[i] \in MaxTerritories
      /\ \A j \in 1..(i - 1) : Arteries[j] \notin MaxTerritories

\* C7: the dominant territory is null exactly when no segment is abnormal;
\* otherwise it is a territory whose abnormal count no other exceeds.
C7_DominantIsMaximal ==
  alive =>
    /\ getAffectedTerritory(state) = "null"
         <=> \A i \in SegmentIds : Get(state, i) \notin 2..4
    /\ getAffectedTerritory(state) # "null"
         => getAffectedTerritory(state) \in MaxTerritories

C7_Witness ==
  /\ alive
  /\ getAffectedTerritory(state) = "CD"
  /\ TerritoryCount("CD") > TerritoryCount("DA")
  /\ TerritoryCount("DA") > 0
  /\ TerritoryCount("CD") > TerritoryCount("Cx")

\* C8: after setPattern(p) for a pattern p of the library, every segment of
\* p's affected set has p's default severity, every other segment is
\* Normal, and the active pattern is p.
C8_PatternApplied ==
  (alive /\ lastCall.op = "setPattern" /\ lastCall.pat \in PatternNames) =>
    /\ pattern = lastCall.pat
    /\ DOMAIN state = SegmentIds
    /\ \A i \in SegmentIds :
         state[i] = IF i \in Range(PATTERNS[lastCall.pat].affectedSegments)
                    THEN PATTERNS[lastCall.pat].severity
                    ELSE 1

C8_Witness ==
  /\ lastCall.op = "setPattern"
  /\ lastCall.pat = "aneurysm_inferior"
  /\ calls >= 3
  /\ state[4] = 4
  /\ state[1] = 1

\* the tier of getAbnormalSegments that lists a severity
TierOf(sev) ==
  CASE sev = 2 -> "hypokinetic" [] sev = 3 -> "akinetic" [] sev = 4 -> "dyskinetic"
    [] OTHER -> "none"

Tiers == {"hypokinetic", "akinetic", "dyskinetic"}

\* C9 as claimed: right after setPattern(p) getAbnormalSegments lists
\* exactly p's affected segments, in the tier of p's default severity, and
\* nothing in the other tiers.
C9_AbnormalAreAffected ==
  (alive /\ lastCall.op = "setPattern" /\ lastCall.pat \in PatternNames) =>
    \E t \in Tiers :
      /\ t = TierOf(PATTERNS[lastCall.pat].severity)
      /\ Range(getAbnormalSegments(state)[t])
           = Range(PATTERNS[lastCall.pat].affectedSegments)
      /\ \A u \in Tiers \ {t} : getAbnormalSegments(state)[u] = << >>

\* C9 (amended): right after setPattern(p), when p's default severity is
\* abnormal getAbnormalSegments lists exactly p's affected segments, in
\* ascending order, in the tier of that severity and nothing in the other
\* tiers; when p's default severity is Normal (bcrd) it lists nothing.
C9_AbnormalAreAffectedUnlessNormal ==
  (alive /\ lastCall.op = "setPattern" /\ lastCall.pat \in PatternNames) =>
    \A t \in Tiers :
      getAbnormalSegments(state)[t] =
        IF t = TierOf(PATTERNS[lastCall.pat].severity)
        THEN PATTERNS[lastCall.pat].affectedSegments
        ELSE << >>

C9_Witness ==
  /\ lastCall.op = "setPattern"
  /\ lastCall.pat = "dilated_cm"
  /\ calls >= 2
  /\ Len(getAbnormalSegments(state).hypokinetic) = 16
  /\ 17 \notin Range(getAbnormalSegments(state).hypokinetic)

\* C10: reset() leaves the store as a freshly constructed default: all 17
\* segments Normal, pattern "none", and these values in the key-value store.
C10_ResetIsDefault ==
  (alive /\ lastCall.op = "reset") =>
    /\ state = [i \in SegmentIds |-> 1]
    /\ pattern = "none"
    /\ HasItem(localStorage, StateKey)
    /\ localStorage[StateKey] = JsonText([i \in SegmentIds |-> 1])
    /\ HasItem(localStorage, PatternKey)
    /\ localStorage[PatternKey] = "none"
    /\ \A ls \in {EmptyStorage, localStorage} :
         /\ ~constructorThrows(ls)
         /\ loadFromStorage(ls) = state
         /\ loadPattern(ls) = pattern

C10_Witness ==
  /\ lastCall.op = "reset"
  /\ calls >= 2
  /\ state[17] = 1
  /\ localStorage[PatternKey] = "none"

StoredPattern(ls) == IF HasItem(ls, PatternKey) THEN ls[PatternKey] ELSE ""

\* C12: setPattern of a name that is neither "none" nor a pattern of the
\* library fails, and the active pattern and the stored pattern name stay
\* what they were.
C12_UnknownPatternRejected ==
  [][(lastCall'.op = "setPattern"
        /\ lastCall'.pat \notin PatternNames \cup {"none"}) =>
       /\ lastCall'.threw
       /\ pattern' = pattern
       /\ StoredPattern(localStorage') = StoredPattern(localStorage)]_vars

\* every registered listener invoked once, in registration order, with arg
EachOnce(arg) == [i \in 1..Len(listeners) |-> [listener |-> i, arg |-> arg]]

SegmentArg(id) == [kind |-> "segment", id |-> id]
AllArg == [kind |-> "all", id |-> 0]

\* C13: every completed mutating call, setPattern with any name
\* included, invokes each registered listener exactly once, in registration
\* order, with the segment id for the segment operations and 'all' for
\* setPattern and reset.
C13_EveryMutationNotifies ==
  CompletedMutation =>
    invoked = IF lastCall.op \in {"toggleSegment", "setSegmentState"}
              THEN EachOnce(SegmentArg(lastCall.seg))
              ELSE EachOnce(AllArg)

\* the values a call that completes leaves, from the values before it
PostState(call) ==
  CASE call.op = "toggleSegment" ->
         Put(state, call.seg, ToggleValue(Get(state, call.seg)))
    [] call.op = "setSegmentState" -> Put(state, call.seg, call.level)
    [] call.op = "setPattern" ->
         IF AppliesPattern(call.pat) THEN PatternState(state, call.pat)
         ELSE state
    [] call.op = "reset" -> getDefaultState

PostPattern(call) ==
  CASE call.op = "setPattern" -> call.pat
    [] call.op = "reset" -> "none"
    [] OTHER -> pattern

\* C14: a mutating call that does not complete normally leaves the
\* in-memory mapping, the in-memory pattern and their persisted copies
\* either all at their values before the call or all at the values the
\* completed call gives.
C14_FailedCallIsAtomic ==
  [][(lastCall'.op \in Mutators /\ lastCall'.threw) =>
       \/ /\ state' = state
          /\ pattern' = pattern
          /\ localStorage' = localStorage
       \/ /\ state' = PostState(lastCall')
          /\ pattern' = PostPattern(lastCall')
          /\ loadFromStorage(localStorage') = state'
          /\ loadPattern(localStorage') = pattern']_vars

\* C15: setPattern("none") clears the active pattern and leaves the
\* severity of every one of the 17 segments as it was.
C15_NoneKeepsSegments ==
  [][(lastCall'.op = "setPattern" /\ lastCall'.pat = "none") =>
       /\ pattern' = "none"
       /\ \A i \in SegmentIds : Get(state', i) = Get(state, i)]_vars

C15_Witness ==
  /\ lastCall.op = "setPattern"
  /\ lastCall.pat = "none"
  /\ pattern = "none"
  /\ state[4] = 2
  /\ state[10] = 2
  /\ state[17] = 2
  /\ localStorage[PatternKey] = "none"

\* the sum of the 17 severities, counted severity by severity
SeveritySum ==
  LET n(v) == Cardinality({i \in SegmentIds : state[i] = v})
  IN n(1) + 2 * n(2) + 3 * n(3) + 4 * n(4)

\* C16: the WMSI is the sum of the 17 severities divided by 17 and rounded
\* to two decimals (here in hundredths: the nearest hundredth to sum / 17);
\* it lies between 1.00 and 4.00, is 1.00 exactly when every segment is
\* Normal and 4.00 exactly when every segment is Dyskinetic.
C16_WMSIIsRoundedMean ==
  alive =>
    LET wmsi == calculateWMSI(state)
    IN /\ 2 * (17 * wmsi - 100 * SeveritySum) <= 17
       /\ 2 * (100 * SeveritySum - 17 * wmsi) <= 17
       /\ wmsi \in 100..400
       /\ (wmsi = 100) <=> (\A i \in SegmentIds : state[i] = 1)
       /\ (wmsi = 400) <=> (\A i \in SegmentIds : state[i] = 4)

\* one segment made hypokinetic: 18 / 17 = 1.0588..., shown as 1.06
C16_Witness ==
  /\ CompletedMutation
  /\ lastCall.op = "setSegmentState"
  /\ SeveritySum = 18
  /\ calculateWMSI(state) = 106

AbnormalCount == AbnormalIn(SegmentIds)
DiffusePatterns == {p \in PatternNames : PATTERNS[p].isDiffuse}
DyssynchronyPatterns ==
  {p \in PatternNames : PATTERNS[p].category = "dyssynchrony"}

\* C17: the motility report is empty exactly when no segment is abnormal;
\* otherwise it is the diffuse sentence exactly when the active pattern is
\* diffuse and at least 12 segments are abnormal; otherwise the
\* dyssynchrony sentence of the pattern exactly when the active pattern is
\* of the dyssynchrony category; otherwise the wall-grouped focal text.
C17_ReportBranch ==
  alive =>
    LET report == generateMotilityReport(state, pattern)
    IN /\ report.kind =
            IF AbnormalCount = 0 THEN "empty"
            ELSE IF pattern \in DiffusePatterns /\ AbnormalCount >= 12
            THEN "diffuse"
            ELSE IF pattern \in DyssynchronyPatterns THEN "dyssynchrony"
            ELSE "focal"
       /\ report.kind = "dyssynchrony" =>
            report.wording = DyssynchronyDescription(pattern)

\* a diffuse pattern with one of its 12 segments set back to Normal
C17_Witness ==
  /\ CompletedMutation
  /\ pattern = "hypertensive_cm"
  /\ AbnormalCount = 11
  /\ generateMotilityReport(state, pattern).kind = "focal"

\* the walls and the levels as the 17-segment model lays them out
WallSegments ==
  [anterior |-> {1, 7, 13}, anteroseptal |-> {2, 8}, inferoseptal |-> {3, 9},
   inferior |-> {4, 10, 15}, inferolateral |-> {5, 11},
   anterolateral |-> {6, 12}, septal |-> {14}, lateral |-> {16},
   apical |-> {17}]
LevelSegments == [basal |-> 1..6, media |-> 7..12, apical |-> 13..17]
TierNames == <<"aquinesia", "hipoquinesia", "disquinesia">>
TierSegments(tier) ==
  {i \in SegmentIds :
     state[i] = CASE tier = "aquinesia" -> 3
                  [] tier = "hipoquinesia" -> 2
                  [] tier = "disquinesia" -> 4}

\* C18: in the focal text the tier clauses come in the order aquinesia,
\* hipoquinesia, disquinesia, one for each tier that has segments; in a
\* tier's clause every wall with a segment in the tier is described exactly
\* once (and no other wall), with the distinct levels of those segments in
\* the order basal, media, apical.
C18_FocalGrouping ==
  LET report == generateMotilityReport(state, pattern)
  IN (alive /\ report.kind = "focal") =>
       /\ [i \in DOMAIN report.parts |-> report.parts[i].severity]
            = SelectSeq(TierNames, LAMBDA t : TierSegments(t) # { })
       /\ \A i \in DOMAIN report.parts :
            LET tier == report.parts[i].severity
                walls == report.parts[i].walls
            IN /\ \A w \in DOMAIN WallSegments :
                    Cardinality({k \in DOMAIN walls : walls[k].wall = w})
                      = IF WallSegments[w] \cap TierSegments(tier) # { }
                        THEN 1 ELSE 0
               /\ \A k \in DOMAIN walls :
                    /\ walls[k].wall \in DOMAIN WallSegments
                    /\ walls[k].levels =
                         SelectSeq(LevelOrder, LAMBDA l :
                           WallSegments[walls[k].wall] \cap TierSegments(tier)
                             \cap LevelSegments[l] # { })

\* segments 1, 7 and 13 akinetic and nothing else abnormal:
\* "aquinesia de pared anterior (basal, media y apical)"
C18_Witness ==
  /\ CompletedMutation
  /\ \A i \in SegmentIds : state[i] = IF i \in {1, 7, 13} THEN 3 ELSE 1
  /\ generateMotilityReport(state, pattern).parts =
       << [severity |-> "aquinesia",
           walls |-> << [form |-> "pared", wall |-> "anterior",
                         levels |-> <<"basal", "media", "apical">>] >>] >>

SentencePatterns == {"dilated_cm", "post_surgery", "bcri", "pacemaker", "bcrd"}

\* C19: with an abnormal segment and one of dilated_cm, post_surgery, bcri,
\* pacemaker, bcrd active, the conclusion is the sentence of the pattern
\* and nothing else, the same whatever the severities are (the same as
\* with every segment dyskinetic).
C19_PatternSentence ==
  (alive /\ AbnormalCount > 0 /\ pattern \in SentencePatterns) =>
    LET conclusion == generateConclusion(state, pattern)
    IN /\ conclusion.kind = "pattern"
       /\ conclusion.sentence # ""
       /\ conclusion.clauses = << >>
       /\ conclusion =
            generateConclusion([i \in SegmentIds |-> 4], pattern)

\* post_surgery applied, then segment 1 made akinetic by hand
C19_Witness ==
  /\ CompletedMutation
  /\ pattern = "post_surgery"
  /\ state[1] = 3
  /\ state[2] = 2
  /\ generateConclusion(state, pattern).sentence
       = DirectSentence("post_surgery")

AbnormalTiersIn(segs) ==
  SelectSeq(<<"Aquinesia", "Hipoquinesia", "Discinesia">>, LAMBDA t :
    \E i \in segs :
      state[i] = CASE t = "Aquinesia" -> 3
                   [] t = "Hipoquinesia" -> 2
                   [] t = "Discinesia" -> 4)
TerritorySegments(a) ==
  CASE a = "DA" -> DASegments [] a = "CD" -> CDSegments [] a = "Cx" -> CxSegments

\* C20: when the conclusion is not empty and not a pattern sentence, it
\* has one clause for each territory with an abnormal segment, in the
\* order DA, CD, Cx; a single clause names no tier; with several clauses
\* each names exactly the tiers present in its territory, in the order
\* akinetic, hypokinetic, dyskinetic.
C20_TerritoryClauses ==
  LET conclusion == generateConclusion(state, pattern)
      clauses == conclusion.clauses
  IN (alive /\ conclusion.kind \notin {"empty", "pattern"}) =>
       /\ [i \in DOMAIN clauses |-> clauses[i].territory]
            = SelectSeq(Arteries, LAMBDA a : TerritoryCount(a) > 0)
       /\ conclusion.sentence = ""
       /\ Len(clauses) = 1 => clauses[1].severities = << >>
       /\ Len(clauses) > 1 =>
            \A i \in DOMAIN clauses :
              clauses[i].severities =
                AbnormalTiersIn(TerritorySegments(clauses[i].territory))

\* DA with akinetic and hypokinetic segments, CD hypokinetic, Cx dyskinetic
C20_Witness ==
  /\ CompletedMutation
  /\ pattern = "none"
  /\ generateConclusion(state, pattern).clauses =
       << [territory |-> "DA", severities |-> <<"Aquinesia", "Hipoquinesia">>],
          [territory |-> "CD", severities |-> <<"Hipoquinesia">>],
          [territory |-> "Cx", severities |-> <<"Discinesia">>] >>

\* C27: toggleSegment(id) with id in 1..17 changes the severity of that
\* segment only: the 16 other severities and the active pattern stay as
\* they were, and a pattern that has a conclusion sentence still gives
\* that sentence after the toggle when a segment is abnormal.
C27_ToggleFrame ==
  [][(/\ calls' = calls + 1
      /\ lastCall'.op = "toggleSegment"
      /\ lastCall'.seg \in SegmentIds) =>
       /\ state'[lastCall'.seg] # state[lastCall'.seg]
       /\ \A i \in SegmentIds \ {lastCall'.seg} : state'[i] = state[i]
       /\ pattern' = pattern
       /\ (PatternSentence(pattern) # "" /\ \E i \in SegmentIds : state'[i] # 1)
            => generateConclusion(state', pattern')
                 = Conclusion("pattern", PatternSentence(pattern), << >>)]_vars

\* bcri active, then one segment toggled by hand; the conclusion is still
\* the sentence of bcri
C27_Witness ==
  /\ alive
  /\ lastCall.op = "toggleSegment"
  /\ pattern = "bcri"
  /\ toggleRun.n = 1
  /\ state[toggleRun.id] = ToggleValue(toggleRun.orig)
  /\ \E i \in SegmentIds \ {toggleRun.id} : state[i] # 1
  /\ generateConclusion(state, pattern).sentence = DirectSentence("bcri")

\* C28: voice recognition stays stopped after a manual stop: once stop()
\* was called, the recognizer's start() is not invoked until the next
\* start() or toggle(), whatever end and error events and restart timers
\* come in between.
C28_StaysStopped ==
  voiceLog.command = "stop" => ~voiceLog.started

\* the report shown was generated from the inputs as they are now
Reported == uiLast = "generateReport" /\ resultado.generated

ConclusionLines(topic) ==
  SelectSeq(resultado.conclusions, LAMBDA l : l.topic = topic)

HasConclusion(topic) == ConclusionLines(topic) # << >>

\* C21: the conclusions of a generated report are numbered 1, 2, ..., k in
\* this order, without a gap and without a repeat; a sentence that is
\* skipped takes no number.
C21_ConsecutiveNumbers ==
  resultado.generated =>
    \A i \in DOMAIN resultado.conclusions : resultado.conclusions[i].num = i

\* a massively calcified aortic valve without stenosis or regurgitation:
\* the aortic sentence is skipped and the sentences after it follow on
C21_Witness ==
  /\ Reported
  /\ form.morf_aortica = "calcificacion masiva"
  /\ ~HasConclusion("aortica")
  /\ HasConclusion("vd")
  /\ Len(resultado.conclusions) >= 5
  /\ resultado.conclusions[Len(resultado.conclusions)].num
       = Len(resultado.conclusions)

\* C22: the pulmonary-hypertension conclusion is in the report only when
\* a tricuspid-regurgitation velocity above 0 is in the inputs at the time
\* the report is generated; a velocity entered and then cleared gives no
\* such conclusion.
C22_PulmonaryOnlyIfComputable ==
  Reported =>
    (HasConclusion("htp") => NumGT(parseFloat(form.vel_it), 0))

\* the sentence that goes with a grade of the classifier
GradeSentence(grade) ==
  CASE grade = "Normal" -> "Normal"
    [] grade = "I" -> "Grado I"
    [] grade = "II" -> "Grado II"
    [] grade = "III" -> "Grado III"
    [] grade = "Indeterminado" -> "Indeterminada"

\* C23: the diastolic conclusion names the grade of the classifier's
\* result: Normal, Grade I, Grade II, Grade III or indeterminate.
C23_DiastolicSameGrade ==
  Reported =>
    \A i \in DOMAIN ConclusionLines("diastolica") :
      ConclusionLines("diastolica")[i].detail
        = GradeSentence(uiState.diastolicResult.grade)

\* C24: the systolic sentence follows the ejection fraction entered:
\* preserved from 50, mildly depressed from 40 to below 50, severely
\* depressed below 40; with no ejection fraction entered it never reports
\* a depressed function.
C24_SystolicSentence ==
  Reported =>
    \A i \in DOMAIN ConclusionLines("vi") :
      LET detail == ConclusionLines("vi")[i].detail
      IN IF form.fevi = Blank
         THEN detail \notin {"levemente deprimida", "severamente deprimida"}
         ELSE detail = (IF form.fevi >= 50 THEN "conservada"
                        ELSE IF form.fevi >= 40 THEN "levemente deprimida"
                        ELSE "severamente deprimida")

\* diameter / sc / 10 > limit / 100, with sc in hundredths of m2
IndexedAbove(diameter, limit) ==
  /\ diameter # Blank
  /\ form.sc_display # Blank
  /\ 1000 * diameter > limit * form.sc_display

RootDilated == IndexedAbove(form.ao_raiz, IF form.sexo = "M" THEN 215 ELSE 211)
AscendingDilated ==
  IndexedAbove(form.ao_asc, IF form.sexo = "M" THEN 211 ELSE 203)

\* the band of an indexed diameter
BandOf(diameter) ==
  IF 1000 * diameter > 300 * form.sc_display THEN "severa"
  ELSE IF 1000 * diameter >= 250 * form.sc_display THEN "moderada"
  ELSE "leve"

\* the bands that the dilated segments are in
DilatedBands ==
  (IF RootDilated THEN {BandOf(form.ao_raiz)} ELSE {})
    \cup (IF AscendingDilated THEN {BandOf(form.ao_asc)} ELSE {})

\* C25: the aortic-dilation conclusion is in the report exactly when the
\* indexed root is above its limit (2.15 male, 2.11 female) or the indexed
\* ascending aorta is above its limit (2.11 male, 2.03 female); it names
\* exactly the segments above their limit, and its band is the worst band
\* among them: leve below 2.5, moderada from 2.5 to 3.0, severa above 3.0.
C25_AorticDilation ==
  Reported =>
    /\ HasConclusion("dilatacion aortica") <=> (RootDilated \/ AscendingDilated)
    /\ Len(ConclusionLines("dilatacion aortica")) <= 1
    /\ \A i \in DOMAIN ConclusionLines("dilatacion aortica") :
         LET line == ConclusionLines("dilatacion aortica")[i]
         IN /\ line.items =
                 (IF RootDilated THEN <<"raiz aortica">> ELSE << >>)
                   \o (IF AscendingDilated THEN <<"aorta ascendente">>
                       ELSE << >>)
            /\ line.detail =
                 (IF "severa" \in DilatedBands THEN "severa"
                  ELSE IF "moderada" \in DilatedBands THEN "moderada"
                  ELSE "leve")

\* a man of 2.00 m2 with a root of 45 mm: leve
C25_Witness ==
  /\ Reported
  /\ form.sexo = "M"
  /\ form.sc_display = 200
  /\ form.ao_raiz = 45
  /\ HasConclusion("dilatacion aortica")
  /\ ConclusionLines("dilatacion aortica")[1].detail = "leve"
  /\ ConclusionLines("dilatacion aortica")[1].items = <<"raiz aortica">>

\* C26: the right-chamber conclusion is in the report only with content:
\* it names at least one dilated chamber with its severity, and it is
\* skipped when a chamber is flagged dilated and no measurement is above
\* its threshold (area 18 cm2, basal diameter 41 mm).
C26_RightChambersHaveContent ==
  Reported =>
    \A i \in DOMAIN ConclusionLines("cavidades derechas") :
      /\ ConclusionLines("cavidades derechas")[i].items # << >>
      /\ \/ NumGT(parseFloat(form.ad_area), 18)
         \/ NumGT(parseFloat(form.vd_basal), 41)

\* C29: in a generated report the body says that the function of the
\* right ventricle is depressed exactly when the conclusions hold the
\* sentence of right-ventricular dysfunction.
C29_RVStatementsAgree ==
  resultado.generated =>
    (resultado.rvFunction = "deprimida" <=> HasConclusion("vd"))

\* the tier of the report that a tier of the calculator stands for
LanusTier(classification) ==
  CASE classification = "Normal" -> "dimensiones conservadas"
    [] classification = "Dilatacion Leve" -> "levemente dilatada"
    [] classification = "Dilatacion Moderada" -> "moderadamente dilatada"
    [] classification = "Dilatacion Severa" -> "severamente dilatada"

\* C30: the tier shown by the Lanus calculator for an indexed volume is
\* the tier of the left-atrium conclusion of the report for that volume.
C30_SameTier ==
  (/\ Reported
   /\ lanusResult # ""
   /\ LanusOfForm(form, uiState) # NoLanus
   /\ LanusOfForm(form, uiState).classification = lanusResult
   /\ LanusOfForm(form, uiState).volumeIndexed = form.vol_ai) =>
    \A i \in DOMAIN ConclusionLines("ai") :
      ConclusionLines("ai")[i].detail = LanusTier(lanusResult)
====
